---- MODULE Spec2Model ----
(***************************************************************************)
(* Model of the thin-liquidity SCALP bot (bot.js): the sharded execution   *)
(* engine (buyBySol, sellTokensForSol), the TP/SL monitor                  *)
(* (monitorPositions), and the autopilot (selectCandidates,                *)
(* autopilotLoop) with the Telegram commands that share their state.       *)
(*                                                                         *)
(* Node.js runs one callback at a time; a callback is suspended only at an *)
(* `await`.  Every action below is the code between two suspension points  *)
(* of one async function.  The three copies of the program in the          *)
(* repository agree on all of the code modelled here; line numbers refer   *)
(* to src/unnamed/part_000.                                                *)
(*                                                                         *)
(* Units.  SOL amounts held in JS Numbers (amountSol, remainingSol,        *)
(* proposedSol) are fixed-point integers counted in ticks, TicksPerLamport *)
(* ticks to a lamport; lamport and raw token amounts (BigInt in the code)  *)
(* are integers.  The source's 0.005 SOL minimum shard is scaled to        *)
(* MIN_SHARD_SOL ticks.                                                    *)
(***************************************************************************)
EXTENDS Integers, Sequences, FiniteSets, TLC

\* ------------------------------------------------------------------ bounds
TicksPerLamport == 2
MaxTarget == 44
MaxOut == 1
MaxRaw == 7
MaxEst == 14
EntryLoaded == 10
MaxTime == 3
\* Largest balance a mint reaches through the autopilot's and /autobuy's buys.
MaxHeld == 1
CooldownCfg == 2
MaxOpenCfg == 2

\* --------------------------------------------------- configuration (THIN)
SLIPPAGE_BASE == 200
SLIPPAGE_CAP == 500
TARGET_IMPACT == 2
HARD_IMPACT == 5
MAX_SHARDS == 5
MIN_SHARD_SOL == 4
EXIT_SHARDS == 3

\* extractImpactPct returns NaN when the route reports no impact.
NaN == -1
IsNaN(x) == x = NaN

Max(a, b) == IF a >= b THEN a ELSE b
Min(a, b) == IF a <= b THEN a ELSE b

\* Impact values a route may report: none, below the soft target, two values
\* between the soft target and the hard cap, one above the hard cap.
ImpactValues == {NaN, 1, 3, 4, 6}

NoRoute == [ok |-> FALSE, inAmount |-> 0, outAmount |-> 0, priceImpactPct |-> NaN]

\* The answers of the quote provider to a request for `amount` (jupQuote):
\* "No route" (or any transport error), or a route whose inAmount is the
\* amount asked for, or is absent (0, falsy in JS).
QuoteAnswers(amount, outs, impacts) ==
  {NoRoute} \cup
  [ok : {TRUE}, inAmount : {0, amount}, outAmount : outs, priceImpactPct : impacts]

extractImpactPct(route) == route.priceImpactPct

\* Mutant: the ceiling is not applied.
CurSlipUncapped(slippageBps) ==
  IF slippageBps = 0 THEN SLIPPAGE_BASE ELSE slippageBps

\* Math.min(Number(slippageBps || THIN.SLIPPAGE_BASE), THIN.SLIPPAGE_CAP)
CurSlip(slippageBps) ==
  Min(IF slippageBps = 0 THEN SLIPPAGE_BASE ELSE slippageBps, SLIPPAGE_CAP)

\* Number((amountSol / THIN.MAX_SHARDS).toFixed(6)): the quotient rounded to
\* the nearest representable step (half up), here one tick.
PerShardSol(amountSol) == (2 * amountSol + MAX_SHARDS) \div (2 * MAX_SHARDS)

\* Math.max(Math.min(remainingSol, perShard), THIN.MIN_SHARD_SOL)
ProposedSol(remainingSol, amountSol) ==
  Max(Min(remainingSol, PerShardSol(amountSol)), MIN_SHARD_SOL)

\* Math.floor(sol * 1e9)
Lamports(sol) == sol \div TicksPerLamport

\* x / 2 on a Number, kept to the tick.
\* Mutant: the half of a shard is nothing.
HalfSolNone(sol) == 0

HalfSol(sol) == sol \div 2

\* ====================================================================
\* buyBySol (lines 247-302)
\* ====================================================================
Mints == {"A", "B"}

VARIABLES
  buy,            \* the buyBySol call of a /buy command
  sell,           \* the sellTokensForSol call of a /sell command
  wallet,         \* on-chain raw token balance of the bot's wallet, per mint
  positions,      \* the in-memory Position Store (line 117)
  diskPositions,  \* the contents of positions.json
  mon,            \* the monitorPositions pass in progress
  mon2,           \* a pass started by a later tick of the timer, while mon is suspended
  now,            \* the clock (Date.now())
  AUTOPILOT,      \* the autopilot configuration (line 143)
  diskAutopilot,  \* the contents of autopilot.json
  auto,           \* the autopilotLoop invocations in progress
  ab,             \* the /autobuy command in progress
  entries,        \* times of the successful autonomous entries, oldest first
  lastChatId,     \* the chat of the latest authorized message (line 118), 0 for null
  done,           \* the buyBySol call of a handler that ended in the latest step
  cb,             \* the /buy command in progress
  sel             \* a call of selectCandidates: its pairs and its result

\* impact > THIN.HARD_IMPACT, false for NaN
ExceedsHard(impact) == ~IsNaN(impact) /\ impact > HARD_IMPACT

\* impact > THIN.TARGET_IMPACT && proposedSol > THIN.MIN_SHARD_SOL
ExceedsTarget(impact, proposedSol) ==
  ~IsNaN(impact) /\ impact > TARGET_IMPACT /\ proposedSol > MIN_SHARD_SOL

\* Mutant: any numeric probe is accepted, whatever the original's impact.
ProbeAcceptedAnyNumber(smallerImpact, impact) == ~IsNaN(smallerImpact)

\* smallerImpact <= impact, false for NaN
ProbeAccepted(smallerImpact, impact) == ~IsNaN(smallerImpact) /\ smallerImpact <= impact

\* proposedSol <= THIN.MIN_SHARD_SOL + 1e-9 (the epsilon is below one tick)
AtMinShard(proposedSol) == proposedSol <= MIN_SHARD_SOL

IdleBuy ==
  [pc |-> "idle", err |-> "none", mint |-> "A", amountSol |-> 0, remainingSol |-> 0,
   spentLamports |-> 0, receivedRaw |-> 0, shards |-> 0, curSlip |-> 0,
   proposedSol |-> 0, lamports |-> 0, route |-> NoRoute,
   smallerSol |-> 0, smallerLamports |-> 0, smallerRoute |-> NoRoute,
   slips |-> {}]

BuyThrow(b, e) ==
  [b EXCEPT !.pc = "thrown", !.err = e, !.route = NoRoute, !.smallerRoute = NoRoute]

BuyReturn(b) ==
  [b EXCEPT !.pc = "returned", !.route = NoRoute, !.smallerRoute = NoRoute]

\* Mutant: the zero-output test is missing.
BuyFinishUnchecked(b) == BuyReturn(b)

\* line 295: if (receivedRaw <= 0n) throw new Error('Buy produced zero output.')
BuyFinish(b) == IF b.receivedRaw <= 0 THEN BuyThrow(b, "ZeroOutput") ELSE BuyReturn(b)

\* line 254: while (remainingSol > 0 && shards < THIN.MAX_SHARDS)
BuyLoopCond(b) == b.remainingSol > 0 /\ b.shards < MAX_SHARDS

\* lines 254-261: the loop test and the code up to the first quote request
BuyLoopHead(b) ==
  IF BuyLoopCond(b)
  THEN LET p == ProposedSol(b.remainingSol, b.amountSol) IN
       [b EXCEPT !.pc = "quote", !.proposedSol = p, !.lamports = Lamports(p),
                 !.route = NoRoute, !.smallerRoute = NoRoute,
                 !.smallerSol = 0, !.smallerLamports = 0,
                 !.slips = @ \cup {b.curSlip}]
  ELSE BuyFinish(b)

\* lines 248-252: the call, up to the first suspension
BuyStart(mint, amountSol, slippageBps) ==
  BuyLoopHead([IdleBuy EXCEPT !.mint = mint, !.amountSol = amountSol,
                              !.remainingSol = amountSol,
                              !.curSlip = CurSlip(slippageBps)])

\* line 266: remainingSol = Math.max(remainingSol - proposedSol / 2, 0)
AfterHardImpact(b) == [b EXCEPT !.remainingSol = Max(@ - HalfSol(b.proposedSol), 0)]

\* lines 261-273: the answer to the shard's quote request
BuyOnQuote(b, r) ==
  IF ~r.ok THEN BuyThrow(b, "NoRoute")
  ELSE LET impact == extractImpactPct(r) IN
    IF ExceedsHard(impact)
    THEN IF AtMinShard(b.proposedSol) THEN BuyThrow(b, "HardImpact")
         ELSE BuyLoopHead(AfterHardImpact(b))
    ELSE IF ExceedsTarget(impact, b.proposedSol)
    THEN LET smallerSol == Max(HalfSol(b.proposedSol), MIN_SHARD_SOL) IN
         [b EXCEPT !.pc = "probe", !.route = r, !.smallerSol = smallerSol,
                   !.smallerLamports = Lamports(smallerSol)]
    ELSE [b EXCEPT !.pc = "send", !.route = r]

\* lines 273-277: the answer to the half-size probe
BuyOnProbe(b, r) ==
  IF ~r.ok THEN BuyThrow(b, "NoRoute")
  ELSE IF ProbeAccepted(extractImpactPct(r), extractImpactPct(b.route))
       THEN [b EXCEPT !.pc = "sendSmaller", !.smallerRoute = r, !.route = NoRoute]
       ELSE [b EXCEPT !.pc = "send"]

\* route.inAmount || lamports
InOrAsked(route, asked) == IF route.inAmount # 0 THEN route.inAmount ELSE asked

\* Mutant: the proposed amount is deducted also after a half-size shard.
BuyOnSendDeductsProposed(b, sent) ==
  LET small == b.pc = "sendSmaller"
      r     == IF small THEN b.smallerRoute ELSE b.route
      asked == IF small THEN b.smallerLamports ELSE b.lamports
  IN IF ~sent THEN BuyThrow(b, "SwapFailed")
     ELSE [b EXCEPT !.pc = "delay",
                     !.spentLamports = @ + InOrAsked(r, asked),
                     !.receivedRaw = @ + r.outAmount,
                     !.remainingSol = @ - b.proposedSol,
                     !.shards = @ + 1]

\* lines 277-281 and 287-291: jupBuildAndSend returned or threw
BuyOnSend(b, sent) ==
  LET small == b.pc = "sendSmaller"
      r     == IF small THEN b.smallerRoute ELSE b.route
      asked == IF small THEN b.smallerLamports ELSE b.lamports
      sol   == IF small THEN b.smallerSol ELSE b.proposedSol
  IN IF ~sent THEN BuyThrow(b, "SwapFailed")
     ELSE [b EXCEPT !.pc = "delay",
                     !.spentLamports = @ + InOrAsked(r, asked),
                     !.receivedRaw = @ + r.outAmount,
                     !.remainingSol = @ - sol,
                     !.shards = @ + 1]

\* lines 282-283, 292: the inter-shard delay elapsed
BuyOnDelay(b) == BuyLoopHead(b)

\* Every continuation of a suspended buyBySol call.
BuySucc(b, outs, impacts) ==
  CASE b.pc = "quote" -> {BuyOnQuote(b, r) : r \in QuoteAnswers(b.lamports, outs, impacts)}
    [] b.pc = "probe" ->
         {BuyOnProbe(b, r) : r \in QuoteAnswers(b.smallerLamports, outs, impacts)}
    [] b.pc \in {"send", "sendSmaller"} -> {BuyOnSend(b, sent) : sent \in BOOLEAN}
    [] b.pc = "delay" -> {BuyOnDelay(b)}
    [] OTHER -> {}

BuyRunning(b) == b.pc \in {"quote", "probe", "send", "sendSmaller", "delay"}

\* Tokens a step of a buy puts into the wallet.
BuyDelta(b, b2) == b2.receivedRaw - b.receivedRaw

\* ====================================================================
\* sellTokensForSol (lines 304-332)
\* ====================================================================
IdleSell ==
  [pc |-> "idle", err |-> "none", mint |-> "A", totalRaw |-> 0, remaining |-> 0,
   soldLamports |-> 0, i |-> 0, slice |-> 0, route |-> NoRoute, slip |-> 0,
   slices |-> <<>>]

SellThrow(s, e) == [s EXCEPT !.pc = "thrown", !.err = e, !.route = NoRoute]

SellReturn(s) == [s EXCEPT !.pc = "returned", !.route = NoRoute, !.slice = 0]

\* line 308: Math.min(THIN.EXIT_SHARDS, Number(THIN.EXIT_SHARDS))
SellShards == Min(EXIT_SHARDS, EXIT_SHARDS)

\* lines 313-314: last ? remaining : remaining / BigInt(shards - i)
SellSlice(remaining, i) ==
  IF i = SellShards - 1 THEN remaining ELSE remaining \div (SellShards - i)

\* lines 312-317: the loop test, the slice and the break, up to the quote request
SellLoopHead(s) ==
  IF s.i < SellShards
  THEN LET slice == SellSlice(s.remaining, s.i) IN
       IF slice <= 0 THEN SellReturn(s)
       ELSE [s EXCEPT !.pc = "quote", !.slice = slice, !.route = NoRoute]
  ELSE SellReturn(s)

\* Mutant: the test of line 306 is missing.
SellStartUnchecked(mint, amountRaw, slippageBps) ==
  SellLoopHead([IdleSell EXCEPT !.mint = mint, !.totalRaw = amountRaw,
                                !.remaining = amountRaw, !.slip = CurSlip(slippageBps)])

\* lines 305-309: the call, up to the first suspension
SellStart(mint, amountRaw, slippageBps) ==
  LET s == [IdleSell EXCEPT !.mint = mint, !.totalRaw = amountRaw,
                            !.remaining = amountRaw, !.slip = CurSlip(slippageBps)]
  IN IF amountRaw <= 0 THEN SellThrow(s, "NothingToSell") ELSE SellLoopHead(s)

\* lines 317-322: the answer to the slice's quote request
SellOnQuote(s, r) ==
  IF ~r.ok THEN SellThrow(s, "NoRoute") ELSE [s EXCEPT !.pc = "send", !.route = r]

\* lines 324-326: jupBuildAndSend returned or threw
SellOnSend(s, sent) ==
  IF ~sent THEN SellThrow(s, "SwapFailed")
  ELSE [s EXCEPT !.pc = "delay",
                 !.soldLamports = @ + s.route.outAmount,
                 !.remaining = @ - InOrAsked(s.route, s.slice),
                 !.slices = Append(@, InOrAsked(s.route, s.slice))]

\* line 328 and the loop increment
SellOnDelay(s) == SellLoopHead([s EXCEPT !.i = @ + 1])

\* Every continuation of a suspended sellTokensForSol call.  A sell route's
\* outAmount is lamports; outs is the set the provider may answer.
SellSucc(s, outs, impacts) ==
  CASE s.pc = "quote" -> {SellOnQuote(s, r) : r \in QuoteAnswers(s.slice, outs, impacts)}
    [] s.pc = "send" -> {SellOnSend(s, sent) : sent \in BOOLEAN}
    [] s.pc = "delay" -> {SellOnDelay(s)}
    [] OTHER -> {}

SellRunning(s) == s.pc \in {"quote", "send", "delay"}

RECURSIVE SumSeq(_)
SumSeq(q) == IF q = <<>> THEN 0 ELSE Head(q) + SumSeq(Tail(q))

\* Raw tokens a step of a sell takes out of the wallet.
SellDelta(s, s2) == SumSeq(s2.slices) - SumSeq(s.slices)

\* ====================================================================
\* Position Store (lines 109-117).  An object keeps its keys in insertion
\* order: keys is that order, rec the records.
\* ====================================================================
SCALP_TP_PCT == 20
SCALP_SL_PCT == 10

EmptyStore == [keys |-> <<>>, rec |-> <<>>]

Range(q) == {q[i] : i \in 1..Len(q)}

Has(st, m) == m \in Range(st.keys)

RECURSIVE Without(_, _)
Without(q, m) ==
  IF q = <<>> THEN <<>>
  ELSE IF Head(q) = m THEN Without(Tail(q), m) ELSE <<Head(q)>> \o Without(Tail(q), m)

\* positions[mint] = record
Put(st, m, r) ==
  [keys |-> IF Has(st, m) THEN st.keys ELSE Append(st.keys, m),
   rec  |-> [k \in Range(st.keys) \cup {m} |-> IF k = m THEN r ELSE st.rec[k]]]

\* delete positions[mint]
Del(st, m) ==
  [keys |-> Without(st.keys, m),
   rec  |-> [k \in Range(st.keys) \ {m} |-> st.rec[k]]]

\* lines 431-441 and 818-828: the record of a new Position
\* Mutant: a new Position starts with its stop at breakeven.
NewPositionNoStop(spentLamports, outAmountRaw, createdAt, profile) ==
  [entrySolSpent |-> spentLamports, entryTokenRecvRaw |-> outAmountRaw,
   tpPct |-> SCALP_TP_PCT, slPct |-> 0, createdAt |-> createdAt,
   lastCheck |-> 0, profileUsed |-> profile, tookPartialTP |-> FALSE]

NewPosition(spentLamports, outAmountRaw, createdAt, profile) ==
  [entrySolSpent |-> spentLamports, entryTokenRecvRaw |-> outAmountRaw,
   tpPct |-> SCALP_TP_PCT, slPct |-> SCALP_SL_PCT, createdAt |-> createdAt,
   lastCheck |-> 0, profileUsed |-> profile, tookPartialTP |-> FALSE]

\* ====================================================================
\* monitorPositions (lines 594-641)
\* ====================================================================
NoEv == [mint |-> "A", rule |-> "none", tracked |-> FALSE, bal |-> 0, sold |-> 0]

\* now: the time the pass started (line 595); keys: the mints still to visit; mint, hasP, p: the loop
\* variables (p is the record read at line 598, hasP whether there was one);
\* ev: what the evaluation that ended in the latest step of the pass did.
IdleMon ==
  [pc |-> "idle", now |-> 0, keys |-> <<>>, mint |-> "A", hasP |-> FALSE,
   tokenBalRaw |-> 0, sell |-> IdleSell, ev |-> NoEv]

\* Mutant: an error ends the pass.
MonNextAbort(m, st, ev) ==
  IF m.keys = <<>> \/ ev.rule = "error" THEN [IdleMon EXCEPT !.ev = ev]
  ELSE [IdleMon EXCEPT !.pc = "balance", !.now = m.now, !.keys = Tail(m.keys),
                       !.mint = Head(m.keys), !.hasP = Has(st, Head(m.keys)), !.ev = ev]

\* lines 596-599: the next iteration, up to the balance query; the pass ends
\* when no key is left
MonNext(m, st, ev) ==
  IF m.keys = <<>> THEN [IdleMon EXCEPT !.ev = ev]
  ELSE [IdleMon EXCEPT !.pc = "balance", !.now = m.now, !.keys = Tail(m.keys),
                       !.mint = Head(m.keys), !.hasP = Has(st, Head(m.keys)), !.ev = ev]

Ev(m, rule, sold) ==
  [mint |-> m.mint, rule |-> rule, tracked |-> m.hasP, bal |-> m.tokenBalRaw, sold |-> sold]

\* Mutant: only a negative balance counts as empty.
BalanceIsZeroStrict(tokenBalRaw) == tokenBalRaw < 0

\* line 600: tokenBalRaw <= 0n
BalanceIsZero(tokenBalRaw) == tokenBalRaw <= 0

\* line 610: pnlPct >= p.tpPct, with pnlPct = (est - entry) / entry * 100
HitTP(est, entry, tpPct) == (est - entry) * 100 >= tpPct * entry

\* Mutant: the stop is hit only below it.
HitSLBelow(est, entry, slPct) == (est - entry) * 100 < (0 - slPct) * entry

\* line 611: pnlPct <= -p.slPct
HitSL(est, entry, slPct) == (est - entry) * 100 <= (0 - slPct) * entry

\* line 623: tokenBalRaw / 2n
HalfRaw(tokenBalRaw) == tokenBalRaw \div 2

\* The result of a step of the pass: the pass, the store and the file.
MonOut(m, st, dk) == [mon |-> m, positions |-> st, disk |-> dk]

\* lines 599-600: the balance query answered (or threw)
MonOnBalance(m, st, dk, ok, bal) ==
  IF ~ok THEN MonOut(MonNext(m, st, Ev(m, "error", 0)), st, dk)
  ELSE IF BalanceIsZero(bal)
  THEN LET st2 == Del(st, m.mint) IN
       MonOut(MonNext(m, st2, [Ev(m, "zero", 0) EXCEPT !.bal = bal]), st2, st2)
  ELSE MonOut([m EXCEPT !.pc = "estimate", !.tokenBalRaw = bal, !.ev = NoEv], st, dk)

\* Mutant: a sell that fails drops the Position.
MonOnSellDropsOnError(m, st, dk, s2) ==
  IF s2.pc = "thrown"
  THEN LET st2 == Del(st, m.mint) IN
       MonOut(MonNext(m, st2, Ev(m, "error", SumSeq(s2.slices))), st2, st2)
  ELSE IF s2.pc # "returned" THEN MonOut([m EXCEPT !.sell = s2, !.ev = NoEv], st, dk)
  ELSE IF m.pc = "sellPartial"
  THEN IF ~Has(st, m.mint)
       THEN MonOut(MonNext(m, st, Ev(m, "error", SumSeq(s2.slices))), st, dk)
       ELSE LET st2 == Put(st, m.mint,
                           [st.rec[m.mint] EXCEPT !.slPct = 0, !.tookPartialTP = TRUE])
            IN MonOut(MonNext(m, st2, Ev(m, "partialTP", SumSeq(s2.slices))), st2, st2)
  ELSE LET st2 == Del(st, m.mint) IN
       MonOut(MonNext(m, st2,
                      Ev(m, IF m.pc = "sellSL" THEN "SL" ELSE "finalTP", SumSeq(s2.slices))),
              st2, st2)

\* Mutant: the partial take-profit writes its Position back when it is gone.
MonOnSellReinserts(m, st, dk, s2) ==
  IF s2.pc = "thrown" THEN MonOut(MonNext(m, st, Ev(m, "error", SumSeq(s2.slices))), st, dk)
  ELSE IF s2.pc # "returned" THEN MonOut([m EXCEPT !.sell = s2, !.ev = NoEv], st, dk)
  ELSE IF m.pc = "sellPartial"
  THEN LET old == IF Has(st, m.mint) THEN st.rec[m.mint]
                  ELSE NewPosition(EntryLoaded, MaxRaw, 0, "SCALP-THIN")
           st2 == Put(st, m.mint, [old EXCEPT !.slPct = 0, !.tookPartialTP = TRUE])
       IN MonOut(MonNext(m, st2, Ev(m, "partialTP", SumSeq(s2.slices))), st2, st2)
  ELSE LET st2 == Del(st, m.mint) IN
       MonOut(MonNext(m, st2,
                      Ev(m, IF m.pc = "sellSL" THEN "SL" ELSE "finalTP", SumSeq(s2.slices))),
              st2, st2)

\* lines 616-618, 625-626, 631-633: a step of the sell; when it returns, the
\* code after it, and when it throws, the catch of line 636
MonOnSell(m, st, dk, s2) ==
  IF s2.pc = "thrown" THEN MonOut(MonNext(m, st, Ev(m, "error", SumSeq(s2.slices))), st, dk)
  ELSE IF s2.pc # "returned" THEN MonOut([m EXCEPT !.sell = s2, !.ev = NoEv], st, dk)
  ELSE IF m.pc = "sellPartial"
  THEN IF ~Has(st, m.mint)
       THEN MonOut(MonNext(m, st, Ev(m, "error", SumSeq(s2.slices))), st, dk)
       ELSE LET st2 == Put(st, m.mint,
                           [st.rec[m.mint] EXCEPT !.slPct = 0, !.tookPartialTP = TRUE])
            IN MonOut(MonNext(m, st2, Ev(m, "partialTP", SumSeq(s2.slices))), st2, st2)
  ELSE LET st2 == Del(st, m.mint) IN
       MonOut(MonNext(m, st2,
                      Ev(m, IF m.pc = "sellSL" THEN "SL" ELSE "finalTP", SumSeq(s2.slices))),
              st2, st2)

\* lines 616, 625, 631: sellTokensForSol is called; a call that ends before
\* its first quote request is continued at once
MonStartSell(m, st, dk, pc, amountRaw) ==
  MonOnSell([m EXCEPT !.pc = pc], st, dk, SellStart(m.mint, amountRaw, SLIPPAGE_BASE))

\* lines 602-631: the estimate answered (or threw); up to the sell's first
\* quote request.  p and positions[mint] are the same object while the
\* Position is in the store; reading p.entrySolSpent when there was no
\* Position, or writing positions[mint].lastCheck once it is gone, throws.
MonOnEstimate(m, st, dk, ok, est) ==
  IF ~ok \/ ~m.hasP \/ ~Has(st, m.mint)
  THEN MonOut(MonNext(m, st, Ev(m, "error", 0)), st, dk)
  ELSE LET p == st.rec[m.mint] IN
    IF p.entrySolSpent <= 0 THEN MonOut(MonNext(m, st, Ev(m, "skip", 0)), st, dk)
    ELSE LET st1   == Put(st, m.mint, [p EXCEPT !.lastCheck = m.now])
             hitTP == HitTP(est, p.entrySolSpent, p.tpPct)
             hitSL == HitSL(est, p.entrySolSpent, p.slPct)
         IN
      IF ~hitTP /\ ~hitSL THEN MonOut(MonNext(m, st1, Ev(m, "hold", 0)), st1, dk)
      ELSE IF hitSL
      THEN MonStartSell(m, st1, dk, "sellSL", m.tokenBalRaw)
      ELSE IF ~p.tookPartialTP
      THEN LET toSell == HalfRaw(m.tokenBalRaw) IN
           IF toSell > 0
           THEN MonStartSell(m, st1, dk, "sellPartial", toSell)
           ELSE MonOut(MonNext(m, st1, Ev(m, "partialSkipped", 0)), st1, dk)
      ELSE MonStartSell(m, st1, dk, "sellFinal", m.tokenBalRaw)

\* ====================================================================
\* Autopilot configuration (lines 120-143)
\* ====================================================================
\* AUTOPILOT_MIN_LIQ_USD, _MIN_5M_VOLUME_USD, _MIN_5M_BUY_TX, _MIN_5M_PRICE_CHANGE_PCT
MinLiqUsd == 6000
MinVol5m == 1500
MinBuys5m == 20
MinChange5m == 4

DefaultAutopilot ==
  [enabled |-> FALSE, budgetSol |-> MIN_SHARD_SOL, maxOpen |-> MaxOpenCfg,
   minLiqUsd |-> MinLiqUsd, minVol5m |-> MinVol5m, minBuys5m |-> MinBuys5m,
   minChange5m |-> MinChange5m, cooldownMs |-> CooldownCfg,
   blacklist |-> {}, lastBuyAt |-> 0, lastTried |-> [m \in Mints |-> 0]]

\* ====================================================================
\* selectCandidates (lines 719-786)
\* ====================================================================
\* Mutant: the per-mint retry cooldown is not looked at.
PairPassesNoCooldown(p, cfg, nowTs) ==
  /\ p.chainId = "solana"
  /\ p.baseMint # ""
  /\ p.baseMint \notin cfg.blacklist
  /\ ~(p.liqUsd < cfg.minLiqUsd)
  /\ ~(p.vol5m < cfg.minVol5m)
  /\ ~(p.buys5m < cfg.minBuys5m)
  /\ ~(p.change5m < cfg.minChange5m)

\* lines 738-758: the filter
PairPasses(p, cfg, nowTs) ==
  /\ p.chainId = "solana"
  /\ p.baseMint # ""
  /\ p.baseMint \notin cfg.blacklist
  /\ ~(p.liqUsd < cfg.minLiqUsd)
  /\ ~(p.vol5m < cfg.minVol5m)
  /\ ~(p.buys5m < cfg.minBuys5m)
  /\ ~(p.change5m < cfg.minChange5m)
  /\ ~(nowTs - cfg.lastTried[p.baseMint] < cfg.cooldownMs)

\* Mutant: the percent change counts against the pair.
ScoreLessChange(p) == p.buys5m * 1000 + p.vol5m - p.change5m * 500

\* lines 765-768: buys * 2 + vol / 500 + change, here times 500
Score(p) == p.buys5m * 1000 + p.vol5m + p.change5m * 500

RECURSIVE FilterPairs(_, _, _)
FilterPairs(pairs, cfg, nowTs) ==
  IF pairs = <<>> THEN <<>>
  ELSE (IF PairPasses(Head(pairs), cfg, nowTs) THEN <<Head(pairs)>> ELSE <<>>)
         \o FilterPairs(Tail(pairs), cfg, nowTs)

\* line 771: sort((a, b) => b.score - a.score), a stable sort
RECURSIVE InsertByScore(_, _)
InsertByScore(p, sorted) ==
  IF sorted = <<>> THEN <<p>>
  ELSE IF Score(Head(sorted)) >= Score(p)
       THEN <<Head(sorted)>> \o InsertByScore(p, Tail(sorted))
       ELSE <<p>> \o sorted

RECURSIVE SortByScore(_)
SortByScore(q) ==
  IF q = <<>> THEN <<>>
  ELSE InsertByScore(q[Len(q)], SortByScore(SubSeq(q, 1, Len(q) - 1)))

\* lines 779-785: the picks loop
RECURSIVE Picks(_, _, _, _)
Picks(filtered, picks, room, st) ==
  IF filtered = <<>> \/ Len(picks) >= room THEN picks
  ELSE IF Has(st, Head(filtered).baseMint) THEN Picks(Tail(filtered), picks, room, st)
       ELSE Picks(Tail(filtered), Append(picks, Head(filtered).baseMint), room, st)

selectCandidates(pairs, cfg, st, nowTs) ==
  LET room == Max(0, cfg.maxOpen - Len(st.keys)) IN
  IF room = 0 THEN <<>>
  ELSE Picks(SortByScore(FilterPairs(pairs, cfg, nowTs)), <<>>, room, st)

\* ====================================================================
\* autopilotLoop (lines 788-846)
\* ====================================================================
\* full: whether the store held maxOpen Positions or more when the timer
\* fired for this invocation
IdleAuto == [pc |-> "idle", cands |-> <<>>, mint |-> "A", buy |-> IdleBuy, full |-> FALSE]

\* Object.keys(positions).length >= AUTOPILOT.maxOpen (lines 721-723: room === 0)
NoCapacity(cfg, st) == Max(0, cfg.maxOpen - Len(st.keys)) = 0

\* The result of a step of an invocation.
AutoOut(a, cfg, dcfg, st, dst, en) ==
  [auto |-> a, cfg |-> cfg, dcfg |-> dcfg, positions |-> st, disk |-> dst, entries |-> en]

\* lines 809-812: the next candidate, up to verifyMintExists; the invocation
\* ends when none is left
AutoNextCand(cands, cfg, dcfg, st, dst, en, nowTs) ==
  IF cands = <<>> THEN AutoOut(IdleAuto, cfg, dcfg, st, dst, en)
  ELSE LET cfg2 == [cfg EXCEPT !.lastTried[Head(cands)] = nowTs] IN
       AutoOut([IdleAuto EXCEPT !.pc = "verify", !.cands = Tail(cands),
                                !.mint = Head(cands)],
               cfg2, cfg2, st, dst, en)

\* line 791: Date.now() - AUTOPILOT.lastBuyAt < AUTOPILOT.cooldownMs
InCooldown(cfg, nowTs) == nowTs - cfg.lastBuyAt < cfg.cooldownMs

\* lines 789-793: the timer fires; up to the fetch
AutoStart(cfg, nowTs) ==
  IF ~cfg.enabled \/ InCooldown(cfg, nowTs) THEN IdleAuto
  ELSE [IdleAuto EXCEPT !.pc = "fetch"]

\* lines 793-812: the fetch answered (or threw, line 842)
AutoOnFetch(ok, pairs, cfg, dcfg, st, dst, en, nowTs) ==
  IF ~ok THEN AutoOut(IdleAuto, cfg, dcfg, st, dst, en)
  ELSE AutoNextCand(selectCandidates(pairs, cfg, st, nowTs), cfg, dcfg, st, dst, en, nowTs)

\* Mutant: the `break` of line 837 is missing.
AutoOnBuyNoBreak(a, b2, cfg, dcfg, st, dst, en, nowTs) ==
  IF b2.pc = "thrown" THEN AutoNextCand(a.cands, cfg, dcfg, st, dst, en, nowTs)
  ELSE IF b2.pc # "returned" THEN AutoOut([a EXCEPT !.pc = "buy", !.buy = b2],
                                          cfg, dcfg, st, dst, en)
  ELSE LET st2  == Put(st, a.mint, NewPosition(b2.spentLamports, b2.receivedRaw,
                                                nowTs, "SCALP-THIN-AUTO"))
           cfg2 == [cfg EXCEPT !.lastBuyAt = nowTs]
       IN AutoNextCand(a.cands, cfg2, cfg2, st2, st2, Append(en, nowTs), nowTs)

\* lines 814-840: a step of the buy; when it returns, the Position is
\* created and saved, lastBuyAt set and saved, and the loop left; when it
\* throws, the catch of line 838 goes on to the next candidate
AutoOnBuy(a, b2, cfg, dcfg, st, dst, en, nowTs) ==
  IF b2.pc = "thrown" THEN AutoNextCand(a.cands, cfg, dcfg, st, dst, en, nowTs)
  ELSE IF b2.pc # "returned" THEN AutoOut([a EXCEPT !.pc = "buy", !.buy = b2],
                                          cfg, dcfg, st, dst, en)
  ELSE LET st2  == Put(st, a.mint, NewPosition(b2.spentLamports, b2.receivedRaw,
                                                nowTs, "SCALP-THIN-AUTO"))
           cfg2 == [cfg EXCEPT !.lastBuyAt = nowTs]
       IN AutoOut(IdleAuto, cfg2, cfg2, st2, st2, Append(en, nowTs))

\* lines 812-816: verifyMintExists answered (or threw); buyBySol is called
\* with the budget of the moment
AutoOnVerify(a, ok, cfg, dcfg, st, dst, en, nowTs) ==
  IF ~ok THEN AutoNextCand(a.cands, cfg, dcfg, st, dst, en, nowTs)
  ELSE AutoOnBuy(a, BuyStart(a.mint, cfg.budgetSol, SLIPPAGE_BASE),
                 cfg, dcfg, st, dst, en, nowTs)

\* ====================================================================
\* /autobuy (lines 419-445) and /autofilters blacklist (lines 526-544)
\* ====================================================================
IdleAb == [pc |-> "idle", mint |-> "A", buy |-> IdleBuy]

AbOut(a, st, dst) == [ab |-> a, positions |-> st, disk |-> dst]

\* Mutant: a Position that exists is kept as it is.
AbOnBuyKeepsOld(a, b2, st, dst, nowTs) ==
  IF b2.pc = "thrown" THEN AbOut(IdleAb, st, dst)
  ELSE IF b2.pc # "returned" THEN AbOut([a EXCEPT !.pc = "buy", !.buy = b2], st, dst)
  ELSE LET st2 == IF Has(st, a.mint) THEN st
                  ELSE Put(st, a.mint, NewPosition(b2.spentLamports, b2.receivedRaw,
                                                   nowTs, "SCALP-THIN"))
       IN AbOut(IdleAb, st2, st2)

\* lines 428-444: a step of the buy; on return the Position is (re)written
\* and saved, on a throw the catch replies
AbOnBuy(a, b2, st, dst, nowTs) ==
  IF b2.pc = "thrown" THEN AbOut(IdleAb, st, dst)
  ELSE IF b2.pc # "returned" THEN AbOut([a EXCEPT !.pc = "buy", !.buy = b2], st, dst)
  ELSE LET st2 == Put(st, a.mint, NewPosition(b2.spentLamports, b2.receivedRaw,
                                               nowTs, "SCALP-THIN"))
       IN AbOut(IdleAb, st2, st2)

\* lines 427-430: verifyMintExists answered (or threw)
AbOnVerify(a, ok, sol, st, dst, nowTs) ==
  IF ~ok THEN AbOut(IdleAb, st, dst)
  ELSE AbOnBuy(a, BuyStart(a.mint, sol, SLIPPAGE_BASE), st, dst, nowTs)

\* line 535: if (!blacklist.includes(mint)) blacklist.push(mint)
BlacklistAdd(cfg, m) == [cfg EXCEPT !.blacklist = @ \cup {m}]

\* line 540: blacklist.filter(m => m !== mint)
BlacklistRemove(cfg, m) == [cfg EXCEPT !.blacklist = @ \ {m}]

\* ====================================================================
\* Persistence (lines 109-143): JSON.stringify on save, JSON.parse on load.
\* A JSON value is null, a number, a boolean or a string; an object is the
\* sequence of its <<name, value>> members in insertion order.  A file that
\* is absent loads like the empty object.
\* ====================================================================
\* null held where the code expects a number
Null == -2

JNull == [t |-> "null", n |-> 0, b |-> FALSE, s |-> ""]

\* JSON.stringify writes NaN as null
JNum(x) == IF IsNaN(x) THEN JNull ELSE [t |-> "num", n |-> x, b |-> FALSE, s |-> ""]

JBool(x) == [t |-> "bool", n |-> 0, b |-> x, s |-> ""]

JStr(x) == [t |-> "str", n |-> 0, b |-> FALSE, s |-> x]

\* The ISO string of instant x (toISOString), and the decimal string of the
\* BigInt x (toString): strings, told apart by the instant or amount they spell.
JStrOf(x) == [t |-> "str", n |-> x, b |-> FALSE, s |-> "#"]

HasField(o, name) == \E i \in 1..Len(o) : o[i][1] = name

\* o[name]: the value of the last member of that name
Field(o, name) ==
  LET i == CHOOSE i \in 1..Len(o) : o[i][1] = name /\ \A j \in (i + 1)..Len(o) : o[j][1] # name
  IN o[i][2]

\* What JSON.parse gives for a member the code reads as a number, a boolean,
\* a string spelling an instant or an amount, a plain string.
NumOf(j) == IF j.t = "num" THEN j.n ELSE Null

BoolOf(j) == j.t = "bool" /\ j.b

StrOfOf(j) == IF j.t = "str" THEN j.n ELSE 0

StrOf(j) == IF j.t = "str" THEN j.s ELSE ""

\* lines 431-441: the members of a Position, in the order of the literal;
\* lastCheck is null (0 here) or the ISO string of a pass
JsonOfPosition(m, r) ==
  << <<"mint", JStr(m)>>,
     <<"entrySolSpent", JNum(r.entrySolSpent)>>,
     <<"entryTokenRecvRaw", JStrOf(r.entryTokenRecvRaw)>>,
     <<"tpPct", JNum(r.tpPct)>>,
     <<"slPct", JNum(r.slPct)>>,
     <<"createdAt", JStrOf(r.createdAt)>>,
     <<"lastCheck", IF r.lastCheck = 0 THEN JNull ELSE JStrOf(r.lastCheck)>>,
     <<"profileUsed", JStr(r.profileUsed)>>,
     <<"tookPartialTP", JBool(r.tookPartialTP)>> >>

PositionOfJson(o) ==
  [entrySolSpent |-> NumOf(Field(o, "entrySolSpent")),
   entryTokenRecvRaw |-> StrOfOf(Field(o, "entryTokenRecvRaw")),
   tpPct |-> NumOf(Field(o, "tpPct")),
   slPct |-> NumOf(Field(o, "slPct")),
   createdAt |-> StrOfOf(Field(o, "createdAt")),
   lastCheck |-> StrOfOf(Field(o, "lastCheck")),
   profileUsed |-> StrOf(Field(o, "profileUsed")),
   tookPartialTP |-> BoolOf(Field(o, "tookPartialTP"))]

\* line 115: JSON.stringify(positions, null, 2)
savePositions(st) == [i \in 1..Len(st.keys) |-> <<st.keys[i], JsonOfPosition(st.keys[i], st.rec[st.keys[i]])>>]

\* Mutant: the file is never read.
loadPositionsEmpty(file) == EmptyStore

\* lines 110-113: JSON.parse of the file
loadPositions(file) ==
  [keys |-> [i \in 1..Len(file) |-> file[i][1]],
   rec  |-> [k \in {file[i][1] : i \in 1..Len(file)} |-> PositionOfJson(Field(file, k))]]

\* line 142: JSON.stringify(AUTOPILOT, null, 2); lastTried has a member for
\* every mint tried so far
saveAutopilotCfg(cfg) ==
  << <<"enabled", JBool(cfg.enabled)>>,
     <<"budgetSol", JNum(cfg.budgetSol)>>,
     <<"maxOpen", JNum(cfg.maxOpen)>>,
     <<"minLiqUsd", JNum(cfg.minLiqUsd)>>,
     <<"minVol5m", JNum(cfg.minVol5m)>>,
     <<"minBuys5m", JNum(cfg.minBuys5m)>>,
     <<"minChange5m", JNum(cfg.minChange5m)>>,
     <<"cooldownMs", JNum(cfg.cooldownMs)>>,
     <<"blacklist", {JStr(m) : m \in cfg.blacklist}>>,
     <<"lastBuyAt", JNum(cfg.lastBuyAt)>>,
     <<"lastTried", {<<m, JNum(cfg.lastTried[m])>> : m \in {k \in Mints : cfg.lastTried[k] # 0}}>> >>

\* raw.lastTried || {}, read as lastTried[mint] || 0
LastTriedOfJson(raw) ==
  [m \in Mints |->
     IF HasField(raw, "lastTried") /\ \E e \in Field(raw, "lastTried") : e[1] = m
     THEN NumOf((CHOOSE e \in Field(raw, "lastTried") : e[1] = m)[2])
     ELSE 0]

\* lines 135-141: { ...AUTOPILOT_DEFAULTS, ...raw, lastTried: raw.lastTried || {} }
loadAutopilotCfg(raw) ==
  LET num(name, dflt) == IF HasField(raw, name) THEN NumOf(Field(raw, name)) ELSE dflt IN
  [enabled |-> IF HasField(raw, "enabled") THEN BoolOf(Field(raw, "enabled"))
               ELSE DefaultAutopilot.enabled,
   budgetSol |-> num("budgetSol", DefaultAutopilot.budgetSol),
   maxOpen |-> num("maxOpen", DefaultAutopilot.maxOpen),
   minLiqUsd |-> num("minLiqUsd", DefaultAutopilot.minLiqUsd),
   minVol5m |-> num("minVol5m", DefaultAutopilot.minVol5m),
   minBuys5m |-> num("minBuys5m", DefaultAutopilot.minBuys5m),
   minChange5m |-> num("minChange5m", DefaultAutopilot.minChange5m),
   cooldownMs |-> num("cooldownMs", DefaultAutopilot.cooldownMs),
   blacklist |-> IF HasField(raw, "blacklist")
                 THEN {StrOf(j) : j \in Field(raw, "blacklist")}
                 ELSE DefaultAutopilot.blacklist,
   lastBuyAt |-> num("lastBuyAt", DefaultAutopilot.lastBuyAt),
   lastTried |-> LastTriedOfJson(raw)]

\* ====================================================================
\* The control channel
\* ====================================================================
\* lines 381-384: every message of an allowed sender sets lastChatId to its
\* chat (one chat here) before the command handler runs
ChatId == 1

OnMessage(chat) == ChatId

NoDone == [task |-> "none", mint |-> "A", res |-> "none", announced |-> FALSE]

\* What the end of a handler's buyBySol call (b2 returned or thrown) did:
\* /buy and /autobuy reply in both cases (lines 402-403, 442-444);
\* autopilotLoop sends its message only on success, and only
\* `if (lastChatId)` (line 836).
DoneOf(task, mint, b2, chat) ==
  IF b2.pc \notin {"returned", "thrown"} THEN NoDone
  ELSE [task |-> task, mint |-> mint, res |-> b2.pc,
        announced |-> IF task = "auto" THEN b2.pc = "returned" /\ chat # 0 ELSE TRUE]

IdleCb == [pc |-> "idle", mint |-> "A", sol |-> 0, buy |-> IdleBuy]

\* pairs: the argument; picks: the result of the latest call; at: the clock
\* reading of that call (line 725)
IdleSel == [pairs |-> <<>>, picks |-> <<>>, called |-> FALSE, at |-> 0]

autoVars == <<AUTOPILOT, diskAutopilot, auto, ab, entries>>

cmdVars == <<lastChatId, done, cb, sel>>

vars == <<buy, sell, wallet, positions, diskPositions, mon, mon2, now, autoVars, cmdVars>>

sysVars == <<positions, diskPositions, mon, mon2, now, autoVars, cmdVars>>

\* ====================================================================
\* The execution engine on its own: one /buy or /sell call (lines 391-417),
\* for every amount and every behaviour of the quote provider.
\* ====================================================================
AutoIds == {1, 2}

\* The autopilot at rest, with the defaults of lines 122-134.
AutoIdle ==
  /\ AUTOPILOT = DefaultAutopilot
  /\ diskAutopilot = DefaultAutopilot
  /\ auto = [i \in AutoIds |-> IdleAuto]
  /\ ab = IdleAb
  /\ entries = <<>>

\* No message received yet, no command under way.
CmdIdle ==
  /\ lastChatId = 0
  /\ done = NoDone
  /\ cb = IdleCb
  /\ sel = IdleSel

SlippageArgs == {0, SLIPPAGE_BASE, SLIPPAGE_CAP + 100}

InitBuy ==
  /\ buy = IdleBuy
  /\ sell = IdleSell
  /\ wallet = [m \in Mints |-> 0]
  /\ positions = EmptyStore
  /\ diskPositions = EmptyStore
  /\ mon = IdleMon
  /\ mon2 = IdleMon
  /\ now = 1
  /\ AutoIdle
  /\ CmdIdle

\* buyBySol({ mint, amountSol, slippageBps }) is called with amountSol > 0
BuyCall ==
  /\ buy.pc = "idle"
  /\ \E t \in 1..MaxTarget, sl \in SlippageArgs : buy' = BuyStart("A", t, sl)
  /\ UNCHANGED <<sell, wallet, sysVars>>

BuyQuote ==
  /\ buy.pc = "quote"
  /\ buy' \in BuySucc(buy, 0..MaxOut, ImpactValues)
  /\ UNCHANGED <<sell, wallet, sysVars>>

BuyProbe ==
  /\ buy.pc = "probe"
  /\ buy' \in BuySucc(buy, 0..MaxOut, ImpactValues)
  /\ UNCHANGED <<sell, wallet, sysVars>>

BuySend ==
  /\ buy.pc \in {"send", "sendSmaller"}
  /\ buy' \in BuySucc(buy, 0..MaxOut, ImpactValues)
  /\ wallet' = [wallet EXCEPT ![buy.mint] = @ + BuyDelta(buy, buy')]
  /\ UNCHANGED <<sell, sysVars>>

BuyDelay ==
  /\ buy.pc = "delay"
  /\ buy' \in BuySucc(buy, 0..MaxOut, ImpactValues)
  /\ UNCHANGED <<sell, wallet, sysVars>>

NextBuy == BuyCall \/ BuyQuote \/ BuyProbe \/ BuySend \/ BuyDelay

SpecBuy == InitBuy /\ [][NextBuy]_vars

\* Every await of buyBySol settles (the provider answers or the request
\* fails, the delay timer fires) and the event loop then runs the
\* continuation.
BuyContinues == BuyQuote \/ BuyProbe \/ BuySend \/ BuyDelay

\* buyBySol called with the default slippage (curSlip is never changed by
\* buyBySol, so the loop runs the same for every slippage).
BuyCallBase ==
  /\ buy.pc = "idle"
  /\ \E t \in 1..MaxTarget : buy' = BuyStart("A", t, SLIPPAGE_BASE)
  /\ UNCHANGED <<sell, wallet, sysVars>>

NextBuyLive == BuyCallBase \/ BuyContinues

SpecBuyLive == InitBuy /\ [][NextBuyLive]_vars /\ WF_vars(BuyContinues)

InitSell ==
  /\ buy = IdleBuy
  /\ sell = IdleSell
  /\ wallet \in [Mints -> {0, MaxRaw}]
  /\ positions = EmptyStore
  /\ diskPositions = EmptyStore
  /\ mon = IdleMon
  /\ mon2 = IdleMon
  /\ now = 1
  /\ AutoIdle
  /\ CmdIdle

\* sellTokensForSol({ mint, amountRaw, slippageBps }) is called with an
\* amount the wallet holds
SellCall ==
  /\ sell.pc = "idle"
  /\ \E raw \in 0..wallet["A"], sl \in SlippageArgs : sell' = SellStart("A", raw, sl)
  /\ UNCHANGED <<buy, wallet, sysVars>>

SellQuote ==
  /\ sell.pc = "quote"
  /\ sell' \in SellSucc(sell, 0..MaxOut, ImpactValues)
  /\ UNCHANGED <<buy, wallet, sysVars>>

SellSend ==
  /\ sell.pc = "send"
  /\ sell' \in SellSucc(sell, 0..MaxOut, ImpactValues)
  /\ wallet' = [wallet EXCEPT ![sell.mint] = @ - SellDelta(sell, sell')]
  /\ UNCHANGED <<buy, sysVars>>

SellDelay ==
  /\ sell.pc = "delay"
  /\ sell' \in SellSucc(sell, 0..MaxOut, ImpactValues)
  /\ UNCHANGED <<buy, wallet, sysVars>>

NextSell == SellCall \/ SellQuote \/ SellSend \/ SellDelay

SpecSell == InitSell /\ [][NextSell]_vars
\* ====================================================================
\* The monitor: passes of monitorPositions (setInterval, line 641) over a
\* store loaded from positions.json, with /cancel commands in between.
\* ====================================================================
\* Mutant: the pass visits every mint, held or not.
MonStartAllMints(m, st, nowTs) ==
  MonNext([IdleMon EXCEPT !.now = nowTs, !.keys = <<"A", "B">>], st, NoEv)

\* line 595-596: the timer fires; now and Object.keys(positions) are read
MonStart(m, st, nowTs) ==
  MonNext([IdleMon EXCEPT !.now = nowTs, !.keys = st.keys], st, NoEv)

\* Records positions.json may hold at start-up: a Position not yet at its
\* first take-profit, or one after it.
LoadedPositions ==
  {NewPosition(EntryLoaded, MaxRaw, 0, "SCALP-THIN"),
   [NewPosition(EntryLoaded, MaxRaw, 0, "SCALP-THIN") EXCEPT !.slPct = 0, !.tookPartialTP = TRUE]}

KeyOrders == {<<>>, <<"A">>, <<"B">>, <<"A", "B">>, <<"B", "A">>}

LoadedStores ==
  UNION {{[keys |-> ks, rec |-> r] : r \in [Range(ks) -> LoadedPositions]} : ks \in KeyOrders}

InitMon ==
  /\ buy = IdleBuy
  /\ sell = IdleSell
  /\ wallet \in [Mints -> 0..MaxRaw]
  /\ positions \in LoadedStores
  /\ diskPositions = positions
  /\ mon = IdleMon
  /\ mon2 = IdleMon
  /\ now = 1
  /\ AutoIdle
  /\ CmdIdle

MonTick ==
  /\ mon.pc = "idle"
  /\ mon' = MonStart(mon, positions, now)
  /\ done' = NoDone
  /\ UNCHANGED <<buy, sell, mon2, wallet, positions, diskPositions, now, autoVars, lastChatId, cb, sel>>

MonApply(out) ==
  /\ mon' = out.mon
  /\ positions' = out.positions
  /\ diskPositions' = out.disk

\* getTokenRawBalance answers with the wallet's balance, or throws
MonBalance ==
  /\ mon.pc = "balance"
  /\ \E ok \in BOOLEAN :
       MonApply(MonOnBalance(mon, positions, diskPositions, ok, wallet[mon.mint]))
  /\ done' = NoDone
  /\ UNCHANGED <<buy, sell, mon2, wallet, now, autoVars, lastChatId, cb, sel>>

\* estimateSolForToken answers with the lamports quoted for the balance, or throws
MonEstimate ==
  /\ mon.pc = "estimate"
  /\ \E ok \in BOOLEAN, est \in 0..MaxEst :
       MonApply(MonOnEstimate(mon, positions, diskPositions, ok, est))
  /\ done' = NoDone
  /\ UNCHANGED <<buy, sell, mon2, wallet, now, autoVars, lastChatId, cb, sel>>

MonSellPcs == {"sellSL", "sellPartial", "sellFinal"}

\* A suspension of the monitor's sellTokensForSol call ends
MonSell ==
  /\ mon.pc \in MonSellPcs
  /\ \E s2 \in SellSucc(mon.sell, {1}, {NaN}) :
       /\ MonApply(MonOnSell(mon, positions, diskPositions, s2))
       /\ wallet' = [wallet EXCEPT ![mon.mint] = @ - SellDelta(mon.sell, s2)]
  /\ done' = NoDone
  /\ UNCHANGED <<buy, sell, mon2, now, autoVars, lastChatId, cb, sel>>

\* lines 456-463: /cancel <mint>
CancelPosition(st, m) == Del(st, m)

CmdCancel ==
  /\ \E m \in Mints :
       /\ Has(positions, m)
       /\ positions' = CancelPosition(positions, m)
       /\ diskPositions' = positions'
  /\ lastChatId' = OnMessage(lastChatId)
  /\ done' = NoDone
  /\ UNCHANGED <<buy, sell, mon2, wallet, mon, now, autoVars, cb, sel>>

NextMon == MonTick \/ MonBalance \/ MonEstimate \/ MonSell \/ CmdCancel

SpecMon == InitMon /\ [][NextMon]_vars

\* ====================================================================
\* The autopilot: overlapping autopilotLoop invocations (setInterval, line
\* 846), with /autobuy and /autofilters blacklist commands in between, and
\* the clock.
\* ====================================================================
\* A Dexscreener pair of mint m with the given 5-minute buy count and the
\* other metrics at their thresholds.
PairOf(m, buys) ==
  [chainId |-> "solana", baseMint |-> m, liqUsd |-> MinLiqUsd, vol5m |-> MinVol5m,
   buys5m |-> buys, change5m |-> MinChange5m]

PairVariants == {PairOf(m, b) : m \in Mints, b \in {MinBuys5m - 1, MinBuys5m, MinBuys5m + 1}}

\* What fetchDexScreenerSolanaPairs may answer: up to one pair per mint.
FetchedPairs ==
  {<<>>} \cup {<<p>> : p \in PairVariants}
         \cup {pq \in PairVariants \X PairVariants : pq[1].baseMint # pq[2].baseMint}

InitAuto ==
  /\ buy = IdleBuy
  /\ sell = IdleSell
  /\ wallet = [m \in Mints |-> 0]
  /\ positions = EmptyStore
  /\ diskPositions = EmptyStore
  /\ mon = IdleMon
  /\ mon2 = IdleMon
  /\ now = CooldownCfg
  /\ \E on \in BOOLEAN, mo \in 1..MaxOpenCfg :
       AUTOPILOT = [DefaultAutopilot EXCEPT !.enabled = on, !.maxOpen = mo]
  /\ diskAutopilot = AUTOPILOT
  /\ auto = [i \in AutoIds |-> IdleAuto]
  /\ ab = IdleAb
  /\ entries = <<>>
  /\ CmdIdle

Tick ==
  /\ now < MaxTime
  /\ now' = now + 1
  /\ done' = NoDone
  /\ UNCHANGED <<buy, sell, mon2, wallet, positions, diskPositions, mon, autoVars, lastChatId, cb, sel>>

AutoApply(i, out) ==
  /\ auto' = [auto EXCEPT ![i] = [out.auto EXCEPT !.full = out.auto.pc # "idle" /\ auto[i].full]]
  /\ AUTOPILOT' = out.cfg
  /\ diskAutopilot' = out.dcfg
  /\ positions' = out.positions
  /\ diskPositions' = out.disk
  /\ entries' = out.entries

\* The swap of a buy lands in the wallet; balances stay within cap.
ReceiveUpTo(m, delta, cap) ==
  /\ wallet[m] + delta <= cap
  /\ wallet' = [wallet EXCEPT ![m] = @ + delta]

Receive(m, delta) == ReceiveUpTo(m, delta, MaxHeld)

AutoTick ==
  /\ \E i \in AutoIds :
       /\ auto[i].pc = "idle"
       \* invocations are anonymous: a new one takes the first free slot
       /\ \A j \in AutoIds : j < i => auto[j].pc # "idle"
       /\ auto' = [auto EXCEPT ![i] =
                      [AutoStart(AUTOPILOT, now) EXCEPT
                         !.full = AutoStart(AUTOPILOT, now).pc # "idle"
                                    /\ NoCapacity(AUTOPILOT, positions)]]
  /\ done' = NoDone
  /\ UNCHANGED <<buy, sell, mon2, wallet, positions, diskPositions, mon, now,
                 AUTOPILOT, diskAutopilot, ab, entries, lastChatId, cb, sel>>

\* The fetch of an invocation answers with one of `lists`, or throws
AutoFetchFrom(lists) ==
  /\ \E i \in AutoIds :
       /\ auto[i].pc = "fetch"
       /\ \E out \in {AutoOnFetch(ok, pairs, AUTOPILOT, diskAutopilot,
                                   positions, diskPositions, entries, now) :
                         ok \in BOOLEAN, pairs \in lists} :
            AutoApply(i, out)
  /\ done' = NoDone
  /\ UNCHANGED <<buy, sell, mon2, wallet, mon, now, ab, lastChatId, cb, sel>>

AutoFetch == AutoFetchFrom(FetchedPairs)

AutoVerify ==
  /\ \E i \in AutoIds, ok \in BOOLEAN :
       /\ auto[i].pc = "verify"
       /\ AutoApply(i, AutoOnVerify(auto[i], ok, AUTOPILOT, diskAutopilot,
                                    positions, diskPositions, entries, now))
  /\ done' = NoDone
  /\ UNCHANGED <<buy, sell, mon2, wallet, mon, now, ab, lastChatId, cb, sel>>

\* The provider's answers to the one-shard buys of the autopilot and of
\* /autobuy: no route, an impact above the hard cap, or a fill.
SysOuts == {1}
SysImpacts == {1, 6}

\* A step of a buy under these answers; the routes carry their inAmount.
SysBuySucc(b) ==
  {b2 \in BuySucc(b, SysOuts, SysImpacts) : b2.route.ok => b2.route.inAmount # 0}

AutoBuy ==
  /\ \E i \in AutoIds :
       /\ auto[i].pc = "buy"
       /\ \E b2 \in SysBuySucc(auto[i].buy) :
            /\ AutoApply(i, AutoOnBuy(auto[i], b2, AUTOPILOT, diskAutopilot,
                                      positions, diskPositions, entries, now))
            /\ Receive(auto[i].mint, BuyDelta(auto[i].buy, b2))
            /\ done' = DoneOf("auto", auto[i].mint, b2, lastChatId)
  /\ UNCHANGED <<buy, sell, mon2, mon, now, ab, lastChatId, cb, sel>>

AbApply(out) ==
  /\ ab' = out.ab
  /\ positions' = out.positions
  /\ diskPositions' = out.disk

\* lines 419-427: /autobuy <mint> <sol>, up to verifyMintExists
CmdAutobuy ==
  /\ ab.pc = "idle"
  /\ \E m \in Mints : ab' = [IdleAb EXCEPT !.pc = "verify", !.mint = m]
  /\ lastChatId' = OnMessage(lastChatId)
  /\ done' = NoDone
  /\ UNCHANGED <<buy, sell, mon2, wallet, positions, diskPositions, mon, now,
                 AUTOPILOT, diskAutopilot, auto, entries, cb, sel>>

AbVerify ==
  /\ ab.pc = "verify"
  /\ \E ok \in BOOLEAN :
       AbApply(AbOnVerify(ab, ok, MIN_SHARD_SOL, positions, diskPositions, now))
  /\ done' = NoDone
  /\ UNCHANGED <<buy, sell, mon2, wallet, mon, now, AUTOPILOT, diskAutopilot, auto, entries,
                 lastChatId, cb, sel>>

AbBuyUpTo(cap) ==
  /\ ab.pc = "buy"
  /\ \E b2 \in SysBuySucc(ab.buy) :
       /\ AbApply(AbOnBuy(ab, b2, positions, diskPositions, now))
       /\ ReceiveUpTo(ab.mint, BuyDelta(ab.buy, b2), cap)
       /\ done' = DoneOf("autobuy", ab.mint, b2, lastChatId)
  /\ UNCHANGED <<buy, sell, mon2, mon, now, AUTOPILOT, diskAutopilot, auto, entries,
                 lastChatId, cb, sel>>

AbBuy == AbBuyUpTo(MaxHeld)

CmdBlacklistAdd ==
  /\ \E m \in Mints :
       /\ AUTOPILOT' = BlacklistAdd(AUTOPILOT, m)
       /\ diskAutopilot' = AUTOPILOT'
  /\ lastChatId' = OnMessage(lastChatId)
  /\ done' = NoDone
  /\ UNCHANGED <<buy, sell, mon2, wallet, positions, diskPositions, mon, now, auto, ab, entries,
                 cb, sel>>

CmdBlacklistRemove ==
  /\ \E m \in Mints :
       /\ AUTOPILOT' = BlacklistRemove(AUTOPILOT, m)
       /\ diskAutopilot' = AUTOPILOT'
  /\ lastChatId' = OnMessage(lastChatId)
  /\ done' = NoDone
  /\ UNCHANGED <<buy, sell, mon2, wallet, positions, diskPositions, mon, now, auto, ab, entries,
                 cb, sel>>

NextAuto ==
  \/ Tick \/ AutoTick \/ AutoFetch \/ AutoVerify \/ AutoBuy
  \/ CmdAutobuy \/ AbVerify \/ AbBuy
  \/ CmdBlacklistAdd \/ CmdBlacklistRemove

SpecAuto == InitAuto /\ [][NextAuto]_vars

\* ====================================================================
\* The commands: /buy, /autobuy and /cancel handlers over a store loaded
\* from positions.json.
\* ====================================================================
\* lines 398-403: a step of the buy of /buy; it replies when the call ends
\* and touches no Position
CbOnBuy(c, b2) ==
  IF b2.pc \in {"returned", "thrown"} THEN IdleCb
  ELSE [c EXCEPT !.pc = "buy", !.buy = b2]

\* lines 397-400: verifyMintExists answered (or threw)
CbOnVerify(c, ok) ==
  IF ~ok THEN IdleCb
  ELSE CbOnBuy(c, BuyStart(c.mint, c.sol, SLIPPAGE_BASE))

\* The amounts of /buy: one shard, or two.
BuySols == {MIN_SHARD_SOL, 2 * MIN_SHARD_SOL}

InitCmd ==
  /\ buy = IdleBuy
  /\ sell = IdleSell
  /\ wallet \in [Mints -> {MaxRaw - 2, MaxRaw - 1}]
  /\ positions \in LoadedStores
  /\ diskPositions = positions
  /\ mon = IdleMon
  /\ mon2 = IdleMon
  /\ now = 1
  /\ AutoIdle
  /\ CmdIdle

\* lines 391-397: /buy <mint> <sol>, up to verifyMintExists
CmdBuy ==
  /\ cb.pc = "idle"
  /\ \E m \in Mints, sol \in BuySols :
       cb' = [IdleCb EXCEPT !.pc = "verify", !.mint = m, !.sol = sol]
  /\ lastChatId' = OnMessage(lastChatId)
  /\ done' = NoDone
  /\ UNCHANGED <<buy, sell, mon2, wallet, positions, diskPositions, mon, now, autoVars, sel>>

CbVerify ==
  /\ cb.pc = "verify"
  /\ \E ok \in BOOLEAN : cb' = CbOnVerify(cb, ok)
  /\ done' = NoDone
  /\ UNCHANGED <<buy, sell, mon2, wallet, positions, diskPositions, mon, now, autoVars,
                 lastChatId, sel>>

CbBuy ==
  /\ cb.pc = "buy"
  /\ \E b2 \in SysBuySucc(cb.buy) :
       /\ cb' = CbOnBuy(cb, b2)
       /\ ReceiveUpTo(cb.mint, BuyDelta(cb.buy, b2), MaxRaw)
       /\ done' = DoneOf("buy", cb.mint, b2, lastChatId)
  /\ UNCHANGED <<buy, sell, mon2, positions, diskPositions, mon, now, autoVars, lastChatId, sel>>

AbBuyLoaded == AbBuyUpTo(MaxRaw)

NextCmd ==
  \/ CmdBuy \/ CbVerify \/ CbBuy
  \/ CmdAutobuy \/ AbVerify \/ AbBuyLoaded
  \/ CmdCancel

SpecCmd == InitCmd /\ [][NextCmd]_vars

\* ====================================================================
\* selectCandidates on its own: calls on one list of pairs, for several
\* configurations and stores, as the clock advances.
\* ====================================================================
\* Dexscreener pairs around the thresholds; several pairs may share a mint.
\* The last three sets hold pairs just short of the liquidity, the volume
\* and the buy-count threshold.
PairSpace ==
  [chainId : {"solana"}, baseMint : Mints, liqUsd : {MinLiqUsd},
   vol5m : {MinVol5m, MinVol5m + 500}, buys5m : {MinBuys5m, MinBuys5m + 1},
   change5m : {MinChange5m - 1, MinChange5m, MinChange5m + 1}]
  \cup {[PairOf(m, MinBuys5m + 1) EXCEPT !.liqUsd = MinLiqUsd - 1] : m \in Mints}
  \cup {[PairOf(m, MinBuys5m + 1) EXCEPT !.vol5m = MinVol5m - 1] : m \in Mints}
  \cup {PairOf(m, MinBuys5m - 1) : m \in Mints}

SelPairs == {<<>>} \cup {<<p>> : p \in PairSpace} \cup (PairSpace \X PairSpace)

\* Configurations as autopilot.json may hold them: B blacklisted or not, A
\* tried one time unit before the start or never.
SelConfigs ==
  {[DefaultAutopilot EXCEPT !.maxOpen = mo, !.blacklist = bl, !.lastTried["A"] = lt] :
     mo \in 1..MaxOpenCfg, bl \in {{}, {"B"}}, lt \in {0, CooldownCfg - 1}}

InitSelect ==
  /\ buy = IdleBuy
  /\ sell = IdleSell
  /\ wallet = [m \in Mints |-> 0]
  /\ positions \in {st \in LoadedStores : Len(st.keys) <= 1}
  /\ diskPositions = positions
  /\ mon = IdleMon
  /\ mon2 = IdleMon
  /\ now = CooldownCfg
  /\ AUTOPILOT \in SelConfigs
  /\ diskAutopilot = AUTOPILOT
  /\ auto = [i \in AutoIds |-> IdleAuto]
  /\ ab = IdleAb
  /\ entries = <<>>
  /\ lastChatId = 0
  /\ done = NoDone
  /\ cb = IdleCb
  /\ sel \in {[IdleSel EXCEPT !.pairs = ps] : ps \in SelPairs}

SelectCall ==
  /\ sel' = [sel EXCEPT !.picks = selectCandidates(sel.pairs, AUTOPILOT, positions, now),
                         !.called = TRUE, !.at = now]
  /\ done' = NoDone
  /\ UNCHANGED <<buy, sell, mon2, wallet, positions, diskPositions, mon, now, autoVars,
                 lastChatId, cb>>

NextSelect == SelectCall \/ Tick

SpecSelect == InitSelect /\ [][NextSelect]_vars

\* ====================================================================
\* Restarts: commands that save the store and the configuration, and the
\* process ending and starting again (lines 117, 118, 143).
\* ====================================================================
\* Stores an earlier run may have saved: a Position after its partial
\* take-profit has been checked by a pass.
SavedStores ==
  {[st EXCEPT !.rec = [k \in DOMAIN st.rec |->
                         IF st.rec[k].tookPartialTP THEN [st.rec[k] EXCEPT !.lastCheck = 1]
                         ELSE st.rec[k]]] : st \in LoadedStores}

InitPersist ==
  /\ buy = IdleBuy
  /\ sell = IdleSell
  /\ wallet = [m \in Mints |-> MaxRaw - 1]
  /\ positions \in SavedStores
  /\ diskPositions = positions
  /\ mon = IdleMon
  /\ mon2 = IdleMon
  /\ now = 1
  /\ AutoIdle
  /\ CmdIdle

\* lines 484-485: /autopilot on | off
SetEnabled(cfg, on) == [cfg EXCEPT !.enabled = on]

CmdAutopilot ==
  /\ \E on \in BOOLEAN :
       /\ AUTOPILOT' = SetEnabled(AUTOPILOT, on)
       /\ diskAutopilot' = AUTOPILOT'
  /\ lastChatId' = OnMessage(lastChatId)
  /\ done' = NoDone
  /\ UNCHANGED <<buy, sell, mon2, wallet, positions, diskPositions, mon, now, auto, ab, entries,
                 cb, sel>>

\* The process ends and is started again: the module's top level runs
\* (lines 117, 118, 143) and every task under way is gone.  The files are
\* what the latest saves wrote.
Restart ==
  /\ positions' = loadPositions(savePositions(diskPositions))
  /\ AUTOPILOT' = loadAutopilotCfg(saveAutopilotCfg(diskAutopilot))
  /\ lastChatId' = 0
  /\ auto' = [i \in AutoIds |-> IdleAuto]
  /\ ab' = IdleAb
  /\ cb' = IdleCb
  /\ mon' = IdleMon
  /\ mon2' = IdleMon
  /\ done' = NoDone
  /\ UNCHANGED <<buy, sell, wallet, diskPositions, diskAutopilot, now, entries, sel>>

NextPersist ==
  \/ CmdAutobuy \/ AbVerify \/ AbBuyLoaded
  \/ CmdCancel \/ CmdAutopilot \/ CmdBlacklistAdd \/ CmdBlacklistRemove
  \/ Tick \/ Restart

SpecPersist == InitPersist /\ [][NextPersist]_vars

\* ====================================================================
\* The gates of the autopilot: autopilotLoop invocations with /autopilot
\* on | off and /cancel commands in between, over a store that may be full.
\* ====================================================================
InitGate ==
  /\ buy = IdleBuy
  /\ sell = IdleSell
  /\ wallet = [m \in Mints |-> 0]
  /\ positions \in {st \in LoadedStores : Len(st.keys) <= 1 /\ \A k \in Range(st.keys) : ~st.rec[k].tookPartialTP}
  /\ diskPositions = positions
  /\ mon = IdleMon
  /\ mon2 = IdleMon
  /\ now = CooldownCfg
  /\ \E on \in BOOLEAN, at \in {0, CooldownCfg - 1} :
       AUTOPILOT = [DefaultAutopilot EXCEPT !.enabled = on, !.maxOpen = 1, !.lastBuyAt = at]
  /\ diskAutopilot = AUTOPILOT
  /\ auto = [i \in AutoIds |-> IdleAuto]
  /\ ab = IdleAb
  /\ entries = <<>>
  /\ CmdIdle

NextGate ==
  \/ Tick \/ AutoTick \/ AutoFetch \/ AutoVerify \/ AutoBuy
  \/ CmdAutopilot \/ CmdCancel

SpecGate == InitGate /\ [][NextGate]_vars

\* ====================================================================
\* The candidates loop: autopilotLoop invocations on their own, the
\* screener listing a token once or in two pools.
\* ====================================================================
PoolPairs == {<<>>} \cup {<<p>> : p \in PairVariants} \cup (PairVariants \X PairVariants)

\* autopilot.json as an earlier run left it: A never tried, or tried one
\* time unit before the start.
InitLoop ==
  /\ buy = IdleBuy
  /\ sell = IdleSell
  /\ wallet = [m \in Mints |-> 0]
  /\ positions = EmptyStore
  /\ diskPositions = EmptyStore
  /\ mon = IdleMon
  /\ mon2 = IdleMon
  /\ now = CooldownCfg
  /\ \E lt \in {0, CooldownCfg - 1}, mo \in 1..MaxOpenCfg :
       AUTOPILOT = [DefaultAutopilot EXCEPT !.enabled = TRUE, !.maxOpen = mo,
                                            !.lastTried["A"] = lt]
  /\ diskAutopilot = AUTOPILOT
  /\ auto = [i \in AutoIds |-> IdleAuto]
  /\ ab = IdleAb
  /\ entries = <<>>
  /\ CmdIdle

AutoFetchPools == AutoFetchFrom(PoolPairs)

NextLoop == Tick \/ AutoTick \/ AutoFetchPools \/ AutoVerify \/ AutoBuy

SpecLoop == InitLoop /\ [][NextLoop]_vars

\* ====================================================================
\* Properties
\* ====================================================================
BuyDone == buy.pc \in {"returned", "thrown"}

\* C5 as stated: buyBySol ends either returning receivedRaw > 0 or failing
\* with the hard-impact error (or, with no output, the zero-output error),
\* whatever the quote provider does.
C5_OnlyImpactOrZeroOutputFailures ==
  BuyDone =>
    \/ buy.pc = "returned" /\ buy.receivedRaw > 0
    \/ buy.pc = "thrown" /\ buy.err \in {"HardImpact", "ZeroOutput"}

\* C5 amended: buyBySol never returns a success whose receivedRaw is 0; it
\* ends returning receivedRaw > 0 or failing with the hard-impact error, the
\* zero-output error (exactly when the loop ended with nothing received), or
\* the propagated error of a failed quote or swap.
C5_NoZeroOutputSuccess ==
  /\ buy.pc = "returned" => buy.receivedRaw > 0
  /\ buy.pc = "thrown" =>
       /\ buy.err \in {"HardImpact", "ZeroOutput", "NoRoute", "SwapFailed"}
       /\ buy.err = "ZeroOutput" => buy.receivedRaw = 0 /\ ~BuyLoopCond(buy)

\* C5 witness: shards were executed, none produced output, the call failed.
C5_Witness == buy.pc = "thrown" /\ buy.err = "ZeroOutput" /\ buy.shards >= 2

\* C6: on a successful return the lamports spent do not exceed the target by
\* more than one shard's rounding (one lamport).
C6_SpentWithinTarget ==
  buy.pc = "returned" =>
    buy.spentLamports * TicksPerLamport <= buy.amountSol + TicksPerLamport

\* C7: a route about to be submitted (the proposed shard or the half-size
\* probe) reports no impact above the hard cap.
C7_SubmittedWithinHardCap ==
  /\ buy.pc = "send" =>
       IsNaN(buy.route.priceImpactPct) \/ buy.route.priceImpactPct <= HARD_IMPACT
  /\ buy.pc = "sendSmaller" =>
       IsNaN(buy.smallerRoute.priceImpactPct)
         \/ buy.smallerRoute.priceImpactPct <= HARD_IMPACT

\* C7 witness: a half-size probe above the soft target is about to be submitted.
C7_Witness ==
  buy.pc = "sendSmaller" /\ buy.smallerRoute.priceImpactPct > TARGET_IMPACT

\* C8: a successful sell executed EXIT_SHARDS shards (fewer only for a
\* balance below that count) and the shard inputs add up to rawAmount.
C8_SellSplitsExactly ==
  sell.pc = "returned" =>
    /\ SumSeq(sell.slices) = sell.totalRaw
    /\ \/ Len(sell.slices) = EXIT_SHARDS
       \/ sell.totalRaw < EXIT_SHARDS /\ Len(sell.slices) < EXIT_SHARDS
\* A step of the monitor pass that ends an evaluation by `rule`.
MonEnds(rule) == mon' # mon /\ mon'.ev.rule = rule

\* C1: a take-profit hit on a Position without a partial exit sells exactly
\* floor(B/2), sets slPct = 0 and tookPartialTP, saves, and leaves the
\* Position in the store.
C1_PartialTakeProfit ==
  [][MonEnds("partialTP") \/ MonEnds("partialSkipped") =>
       /\ mon'.ev.sold = mon'.ev.bal \div 2
       /\ Has(positions', mon.mint)
       /\ positions'.rec[mon.mint].slPct = 0
       /\ positions'.rec[mon.mint].tookPartialTP
       /\ diskPositions' = positions']_vars

\* C2: a stop-loss hit calls the sell with the full balance B, and when the
\* sell returns B raw units were sold, the Position is out of the store and
\* the store is saved.
C2_StopLossSellsAll ==
  [][/\ mon.pc = "estimate" /\ mon'.pc = "sellSL" => mon'.sell.totalRaw = mon.tokenBalRaw
     /\ MonEnds("SL") =>
          /\ mon'.ev.sold = mon'.ev.bal
          /\ ~Has(positions', mon.mint)
          /\ diskPositions' = positions']_vars

\* C3: a take-profit hit on a Position with tookPartialTP sells the whole
\* remaining balance and removes the Position.
C3_FinalTakeProfitSellsAll ==
  [][/\ mon.pc = "estimate" /\ mon'.pc = "sellFinal" => mon'.sell.totalRaw = mon.tokenBalRaw
     /\ MonEnds("finalTP") =>
          /\ mon'.ev.sold = mon'.ev.bal
          /\ ~Has(positions', mon.mint)
          /\ diskPositions' = positions']_vars

\* C4: when the balance query answers zero, the step removes the Position
\* and saves the store, requests no quote, starts no sell and moves no
\* tokens: it goes on to the next key's balance query or ends the pass.
C4_ZeroBalanceRemoves ==
  [][mon.pc = "balance" /\ mon' # mon /\ wallet[mon.mint] = 0 /\ mon'.ev.rule # "error" =>
       /\ ~Has(positions', mon.mint)
       /\ diskPositions' = positions'
       /\ mon'.pc \in {"idle", "balance"}
       /\ mon'.sell = IdleSell
       /\ wallet' = wallet]_vars

\* C4 witness: a Position that was in the store was removed on a zero
\* balance while another stays.
C4_Witness ==
  /\ mon.ev.rule = "zero" /\ mon.ev.tracked
  /\ ~Has(positions, mon.ev.mint)
  /\ positions.keys # <<>>
  /\ diskPositions = positions
\* --------------------------------------------------------------------
\* C9: any two successful autonomous entries are at least cooldownMs
\* apart, in every interleaving of autopilotLoop invocations.
C9_EntriesCooldownApart ==
  \A k \in 1..(Len(entries) - 1) : entries[k + 1] - entries[k] >= AUTOPILOT.cooldownMs

\* C10: when autopilotLoop starts the buy of a candidate (verifyMintExists
\* has answered and buyBySol is called), the candidate is not blacklisted
\* and has no Position.
C10_NoEntryForBlacklistedOrHeld ==
  [][\A i \in AutoIds :
       auto[i].pc = "verify" /\ auto'[i].pc = "buy" =>
         /\ auto[i].mint \notin AUTOPILOT.blacklist
         /\ ~Has(positions, auto[i].mint)]_vars

\* C11: autopilotLoop never creates a Position when the store already holds
\* maxOpen or more Positions at the moment of creation.
C11_EntryWithinCapacity ==
  [][entries' # entries => Len(positions.keys) < AUTOPILOT.maxOpen]_vars

\* C12: whenever a task is suspended at an await (a monitor pass, an
\* autopilotLoop invocation or an /autobuy handler is under way),
\* positions.json equals the Position Store and autopilot.json equals
\* AUTOPILOT, in every field.
SomeTaskSuspended ==
  \/ mon.pc # "idle"
  \/ ab.pc # "idle"
  \/ \E i \in AutoIds : auto[i].pc # "idle"

C12_PersistedEqualsMemory ==
  SomeTaskSuspended => diskPositions = positions /\ diskAutopilot = AUTOPILOT

\* C13: between the first and the last shard of one sellTokensForSol call
\* (here the monitor's: a shard has been executed and the call is still
\* suspended) no step of another task executes: every step taken then is
\* a step of that call.
MidShardSell == mon.pc \in MonSellPcs /\ mon.sell.slices # <<>>

C13_NoPreemptionMidShard ==
  [][MidShardSell => mon' # mon]_vars

\* C14: a /cancel of a held mint (a step that changes the store and is no
\* step of the monitor) removes exactly that Position and leaves
\* positions.json equal to the store; a pass visits only mints that were in
\* the store when it started, so none that was cancelled before and not
\* created again; and a sell under way whose Position disappears is left as
\* it was, unless the disappearance is that sell's own completion.
Visited(m) == IF m.pc = "idle" THEN {} ELSE {m.mint} \cup Range(m.keys)

CancelRemovesAndPersists ==
  mon' = mon /\ positions' # positions =>
    /\ \E c \in Range(positions.keys) :
         /\ Range(positions'.keys) = Range(positions.keys) \ {c}
         /\ \A k \in Range(positions'.keys) : positions'.rec[k] = positions.rec[k]
    /\ diskPositions' = positions'

PassVisitsHeldOnly ==
  mon' # mon =>
    Visited(mon') \subseteq (IF mon.pc = "idle" THEN Range(positions.keys) ELSE Visited(mon))

SellNotInterrupted ==
  mon.pc \in MonSellPcs /\ Has(positions, mon.mint) /\ ~Has(positions', mon.mint) =>
    \/ mon' = mon /\ wallet' = wallet
    \/ mon'.ev.rule \in {"SL", "finalTP"}

C14_CancelStopsMonitoring ==
  [][CancelRemovesAndPersists /\ PassVisitsHeldOnly /\ SellNotInterrupted]_vars

\* A sell of the monitor is under way for a mint whose Position was
\* cancelled after the pass read it.
C14_Witness ==
  /\ mon.pc \in MonSellPcs
  /\ mon.hasP
  /\ ~Has(positions, mon.mint)
  /\ mon.sell.slices # <<>>

\* C15: every step of a pass either goes on with the evaluation of the same
\* mint, or moves to the next mint of the list read at the start of the
\* pass, or, when none is left, ends the pass (the timer can start the next
\* one): also when the step ended in an error of the balance query, the
\* quote or the sell.
C15_ErrorsDoNotEndThePass ==
  [][mon.pc # "idle" /\ mon' # mon =>
       \/ /\ mon'.pc \notin {"idle", "balance"}
          /\ mon'.mint = mon.mint
          /\ mon'.keys = mon.keys
       \/ /\ mon.keys # <<>>
          /\ mon'.pc = "balance"
          /\ mon'.mint = Head(mon.keys)
          /\ mon'.keys = Tail(mon.keys)
       \/ /\ mon.keys = <<>>
          /\ mon'.pc = "idle"]_vars

\* The evaluation of a Position ended in an error and the pass is at the
\* balance query of the next Position.
C15_Witness ==
  /\ mon.ev.rule = "error"
  /\ mon.ev.tracked
  /\ mon.pc = "balance"
  /\ mon.hasP

\* C16: whenever autopilotLoop creates a Position (its buyBySol call has
\* returned), the entry is announced on the control channel.
C16_EntryAnnounced ==
  done.task = "auto" /\ done.res = "returned" => done.announced

\* C17: while a Position for a mint stays in the store, tookPartialTP never
\* goes from true back to false and slPct never from 0 back to a nonzero
\* value.
C17_NoWayBackFromPartial ==
  [][\A m \in Mints :
       Has(positions, m) /\ Has(positions', m) =>
         /\ positions.rec[m].tookPartialTP => positions'.rec[m].tookPartialTP
         /\ positions.rec[m].slPct = 0 => positions'.rec[m].slPct = 0]_vars

\* C19: when the buyBySol call of a handler (/buy, /autobuy, autopilotLoop)
\* returns, a Position for its mint is in the store with tookPartialTP
\* false and lastCheck null, and positions.json equals the store; when the
\* call throws, store and file are as before; and a Position enters the
\* store only in a step in which a buy for its mint returns.
C19_PositionIffBuySucceeded ==
  [][/\ done' # done /\ done'.res = "returned" =>
          /\ Has(positions', done'.mint)
          /\ ~positions'.rec[done'.mint].tookPartialTP
          /\ positions'.rec[done'.mint].lastCheck = 0
          /\ diskPositions' = positions'
     /\ done' # done /\ done'.res = "thrown" =>
          /\ positions' = positions
          /\ diskPositions' = diskPositions
     /\ \A m \in Mints :
          ~Has(positions, m) /\ Has(positions', m) =>
            done'.res = "returned" /\ done'.mint = m]_vars

\* C18: for a Position after its partial take-profit, the monitor closes
\* through the stop-loss rule only on an estimate that values a held raw
\* unit at or below the unit entry price: est / balance <=
\* entrySolSpent / entryTokenRecvRaw.
UnitAtOrBelowEntry(est, bal, p) ==
  est * p.entryTokenRecvRaw <= p.entrySolSpent * bal

C18_BreakevenStop ==
  [][\A est \in 0..MaxEst :
       /\ mon.pc = "estimate"
       /\ mon.hasP
       /\ Has(positions, mon.mint)
       /\ positions.rec[mon.mint].tookPartialTP
       /\ HitSL(est, positions.rec[mon.mint].entrySolSpent, positions.rec[mon.mint].slPct)
       /\ mon'.pc = "sellSL" \/ MonEnds("SL")
       => UnitAtOrBelowEntry(est, mon.tokenBalRaw, positions.rec[mon.mint])]_vars

\* q is p with one of the metrics of the score (buy count, volume, percent
\* change) larger.
OneMetricLarger(p, q) ==
  \/ q.buys5m > p.buys5m /\ q = [p EXCEPT !.buys5m = q.buys5m]
  \/ q.vol5m > p.vol5m /\ q = [p EXCEPT !.vol5m = q.vol5m]
  \/ q.change5m > p.change5m /\ q = [p EXCEPT !.change5m = q.change5m]

ScoreMonotonic ==
  \A i, j \in 1..Len(sel.pairs) :
    OneMetricLarger(sel.pairs[i], sel.pairs[j]) => Score(sel.pairs[j]) >= Score(sel.pairs[i])

C22_ZeroAmountFailsAtOnce ==
  sell.pc # "idle" /\ sell.totalRaw = 0 =>
    /\ sell.pc = "thrown"
    /\ sell.err = "NothingToSell"
    /\ sell.slices = <<>>
    /\ sell.route = NoRoute

\* A call with amount zero has failed, the wallet holding tokens.
C22_Witness ==
  /\ sell.pc = "thrown"
  /\ sell.err = "NothingToSell"
  /\ sell.totalRaw = 0
  /\ wallet[sell.mint] > 0


\* C23: an autopilotLoop invocation goes beyond its first statements only
\* when the timer fired with autopilot enabled and the global cooldown
\* elapsed; an invocation whose timer fired with no capacity left starts no
\* buy (it never gets to a candidate) and changes neither the Position
\* Store nor lastBuyAt nor lastTried; and buyBySol is never called by
\* autopilotLoop while enabled is false.
C23_SkippedTickDoesNothing ==
  [][\A i \in AutoIds :
       /\ auto[i].pc = "idle" /\ auto'[i].pc # "idle" =>
            AUTOPILOT.enabled /\ ~InCooldown(AUTOPILOT, now)
       /\ auto[i].full /\ auto'[i] # auto[i] =>
            /\ auto'[i].pc \notin {"verify", "buy"}
            /\ positions' = positions
            /\ AUTOPILOT' = AUTOPILOT
       /\ auto[i].pc = "verify" /\ auto'[i].pc = "buy" => AUTOPILOT.enabled]_vars


\* A pair at or above every threshold of the configuration.
PassesGates(p, cfg) ==
  /\ p.liqUsd >= cfg.minLiqUsd
  /\ p.vol5m >= cfg.minVol5m
  /\ p.buys5m >= cfg.minBuys5m
  /\ p.change5m >= cfg.minChange5m

\* C24: every instrument selectCandidates returns is not blacklisted, has
\* no Position, is outside its retry cooldown at the time of the call, and
\* comes from a pair that passes every gate; the list is no longer than
\* maxOpen minus the number of open Positions; and its entries come from
\* distinct pairs whose scores do not increase along the list.
C24_PicksPassAndAreOrdered ==
  sel.called =>
    /\ Len(sel.picks) <= Max(0, AUTOPILOT.maxOpen - Len(positions.keys))
    /\ \A k \in 1..Len(sel.picks) :
         /\ sel.picks[k] \notin AUTOPILOT.blacklist
         /\ ~Has(positions, sel.picks[k])
         /\ sel.at - AUTOPILOT.lastTried[sel.picks[k]] >= AUTOPILOT.cooldownMs
    /\ \E f \in [1..Len(sel.picks) -> 1..Len(sel.pairs)] :
         /\ \A k \in 1..Len(sel.picks) :
              /\ sel.pairs[f[k]].baseMint = sel.picks[k]
              /\ PassesGates(sel.pairs[f[k]], AUTOPILOT)
         /\ \A k, l \in 1..Len(sel.picks) :
              k < l => f[k] # f[l] /\ Score(sel.pairs[f[k]]) >= Score(sel.pairs[f[l]])

\* Two instruments passed every test with room for one: the call returned
\* the one with the larger score, listed second by Dexscreener.
C24_Witness ==
  /\ sel.called
  /\ Len(sel.pairs) = 2
  /\ sel.pairs[1].baseMint # sel.pairs[2].baseMint
  /\ PairPasses(sel.pairs[1], AUTOPILOT, sel.at)
  /\ PairPasses(sel.pairs[2], AUTOPILOT, sel.at)
  /\ Score(sel.pairs[2]) > Score(sel.pairs[1])
  /\ positions = EmptyStore
  /\ AUTOPILOT.maxOpen = 1
  /\ sel.picks = <<sel.pairs[2].baseMint>>


\* The latest attempt on m has ended without an entry: one was made, no
\* other invocation is at it, and m has no Position.
LastAttemptFailed(i, m) ==
  /\ AUTOPILOT.lastTried[m] # 0
  /\ ~Has(positions, m)
  /\ \A j \in AutoIds \ {i} : ~(auto[j].pc \in {"verify", "buy"} /\ auto[j].mint = m)

\* C25: when autopilotLoop turns to a candidate (the step that ends at its
\* verifyMintExists), lastTried of the candidate is the time of the step
\* and autopilot.json holds it; and when the latest attempt on that
\* instrument failed, the retry cooldown has elapsed since it.
C25_RetryCooldownRespected ==
  [][\A i \in AutoIds :
       auto'[i] # auto[i] /\ auto'[i].pc = "verify" =>
         /\ AUTOPILOT'.lastTried[auto'[i].mint] = now
         /\ diskAutopilot' = AUTOPILOT'
         /\ LastAttemptFailed(i, auto'[i].mint) =>
              now - AUTOPILOT.lastTried[auto'[i].mint] >= AUTOPILOT.cooldownMs]_vars


\* The candidates an invocation still has to attempt, the one it is at first.
Pending(a) == IF a.pc \in {"verify", "buy"} THEN <<a.mint>> \o a.cands ELSE <<>>

\* C26: the candidates of a tick are attempted in the order of the list
\* selectCandidates returned.  A step of an attempt either goes on with the
\* same buy, or fails, and then lastBuyAt and the Position Store are as
\* before and the invocation is at the next candidate of its list (or ends
\* when none is left), or enters, and then the Position is created,
\* lastBuyAt is the time of the entry and the invocation ends, whatever
\* candidates were left.
C26_OneEntryPerTick ==
  [][\A i \in AutoIds :
       /\ auto[i].pc = "fetch" /\ auto'[i] # auto[i] =>
            \E pairs \in PoolPairs :
              Pending(auto'[i]) = selectCandidates(pairs, AUTOPILOT, positions, now)
       /\ auto[i].pc \in {"verify", "buy"} /\ auto'[i] # auto[i] =>
            \/ /\ done'.res = "none"
               /\ auto'[i].pc = "buy"
               /\ Pending(auto'[i]) = Pending(auto[i])
               /\ positions' = positions
               /\ AUTOPILOT' = AUTOPILOT
            \/ /\ done'.res # "returned"
               /\ Pending(auto'[i]) = auto[i].cands
               /\ auto'[i].pc \in {"idle", "verify"}
               /\ positions' = positions
               /\ AUTOPILOT'.lastBuyAt = AUTOPILOT.lastBuyAt
               /\ entries' = entries
            \/ /\ done'.res = "returned"
               /\ done'.mint = auto[i].mint
               /\ Has(positions', auto[i].mint)
               /\ AUTOPILOT'.lastBuyAt = now
               /\ entries' = Append(entries, now)
               /\ auto'[i].pc = "idle"]_vars

\* An entry was made for B in the time unit in which A was attempted
\* without one: the attempt on A failed and the tick went on to B.
C26_Witness ==
  /\ done.task = "auto" /\ done.res = "returned" /\ done.mint = "B"
  /\ Has(positions, "B")
  /\ ~Has(positions, "A")
  /\ AUTOPILOT.lastTried["A"] = now
  /\ AUTOPILOT.lastBuyAt = now
  /\ \A i \in AutoIds : auto[i].pc = "idle"


\* C27: when the route quoted for a shard reports an impact above the hard
\* cap, a shard at minimum size ends the call with the hard-impact error;
\* for a larger shard no swap is submitted and no probe requested, spent,
\* received and the shard count stay as they were, the wallet is
\* untouched, and the remaining amount is half of what it was (to the tick).
C27_HardImpactHalvesRemaining ==
  [][\A r \in QuoteAnswers(buy.lamports, 0..MaxOut, ImpactValues) :
       /\ buy.pc = "quote"
       /\ r.ok
       /\ ExceedsHard(extractImpactPct(r))
       /\ buy' = BuyOnQuote(buy, r)
       => IF AtMinShard(buy.proposedSol)
          THEN buy'.pc = "thrown" /\ buy'.err = "HardImpact"
          ELSE /\ buy'.pc \notin {"probe", "send", "sendSmaller", "delay"}
               /\ buy'.spentLamports = buy.spentLamports
               /\ buy'.receivedRaw = buy.receivedRaw
               /\ buy'.shards = buy.shards
               /\ wallet' = wallet
               /\ buy.remainingSol - 1 <= 2 * buy'.remainingSol
               /\ 2 * buy'.remainingSol <= buy.remainingSol + 1]_vars


\* The route r quoted for the proposed shard is above the soft target, not
\* above the hard cap, and the shard is larger than the minimum.
SoftExceeded(b, r) ==
  /\ r.ok
  /\ ~ExceedsHard(extractImpactPct(r))
  /\ ~IsNaN(extractImpactPct(r))
  /\ extractImpactPct(r) > TARGET_IMPACT
  /\ b.proposedSol > MIN_SHARD_SOL

\* x is half of y, to the tick.
IsHalf(x, y) == y - 1 <= 2 * x /\ 2 * x <= y + 1

\* The swap of the shard about to be submitted went through: the shard of
\* size sol and its route r are accounted for, and nothing else.
ExecutedExactly(sol, r) ==
  /\ buy'.remainingSol = buy.remainingSol - sol
  /\ buy'.receivedRaw = buy.receivedRaw + r.outAmount
  /\ wallet'[buy.mint] = wallet[buy.mint] + r.outAmount
  /\ buy'.shards = buy.shards + 1

SubmitsWhatWasChosen ==
  /\ buy.pc = "sendSmaller" /\ buy'.pc = "delay" => ExecutedExactly(buy.smallerSol, buy.smallerRoute)
  /\ buy.pc = "send" /\ buy'.pc = "delay" => ExecutedExactly(buy.proposedSol, buy.route)

\* C28 as stated: on a soft-target exceedance a route of half the shard's
\* size is probed; when the probe's impact is no worse than the original's
\* the half-size shard is executed and only its amount deducted; otherwise
\* the original shard is executed.
C28_ProbeHalfSize ==
  [][/\ \A r \in QuoteAnswers(buy.lamports, 0..MaxOut, ImpactValues) :
          buy.pc = "quote" /\ SoftExceeded(buy, r) /\ buy' = BuyOnQuote(buy, r) =>
            buy'.pc = "probe" /\ IsHalf(buy'.smallerSol, buy.proposedSol)
     /\ \A r \in QuoteAnswers(buy.smallerLamports, 0..MaxOut, ImpactValues) :
          buy.pc = "probe" /\ buy' = BuyOnProbe(buy, r) =>
            IF r.ok /\ ~IsNaN(extractImpactPct(r))
                 /\ extractImpactPct(r) <= extractImpactPct(buy.route)
            THEN buy'.pc = "sendSmaller" /\ buy'.smallerRoute = r
            ELSE buy'.pc = "send" /\ buy'.route = buy.route
     /\ SubmitsWhatWasChosen]_vars

\* C28, amended: the route probed is of half the shard's size, or of the
\* minimum size when the half is below it; a probe request that fails ends
\* the call with its error and nothing is executed; a probe that reports a
\* worse impact, or none, leaves the original shard to be executed.
C28_ProbeSmallerShard ==
  [][/\ \A r \in QuoteAnswers(buy.lamports, 0..MaxOut, ImpactValues) :
          buy.pc = "quote" /\ SoftExceeded(buy, r) /\ buy' = BuyOnQuote(buy, r) =>
            /\ buy'.pc = "probe"
            /\ buy'.smallerSol < buy.proposedSol
            /\ IF 2 * MIN_SHARD_SOL > buy.proposedSol
               THEN buy'.smallerSol = MIN_SHARD_SOL
               ELSE IsHalf(buy'.smallerSol, buy.proposedSol)
     /\ \A r \in QuoteAnswers(buy.smallerLamports, 0..MaxOut, ImpactValues) :
          buy.pc = "probe" /\ buy' = BuyOnProbe(buy, r) =>
            IF ~r.ok
            THEN /\ buy'.pc = "thrown" /\ buy'.err = "NoRoute"
                 /\ buy'.shards = buy.shards /\ wallet' = wallet
            ELSE IF ~IsNaN(extractImpactPct(r))
                      /\ extractImpactPct(r) <= extractImpactPct(buy.route)
            THEN buy'.pc = "sendSmaller" /\ buy'.smallerRoute = r
            ELSE buy'.pc = "send" /\ buy'.route = buy.route
     /\ SubmitsWhatWasChosen]_vars

\* A shard smaller than twice the minimum was probed at the minimum size,
\* the probe was accepted and its swap went through, a shard executed
\* before it.
C28_Witness ==
  /\ buy.pc = "delay"
  /\ buy.smallerRoute.ok
  /\ buy.smallerSol = MIN_SHARD_SOL
  /\ 2 * MIN_SHARD_SOL > buy.proposedSol + 1
  /\ buy.shards >= 2


\* A measure of what is left of a call: the remaining target, then the
\* position inside the loop body.
BuyRank(b) ==
  4 * b.remainingSol
    + (CASE b.pc = "delay" -> 4
         [] b.pc = "quote" -> 3
         [] b.pc = "probe" -> 2
         [] OTHER -> 1)

\* C29: buyBySol terminates whatever the provider answers: it never executes
\* more than MAX_SHARDS shards, it goes round the loop again only while
\* something remains and the shard cap is not hit, every step it can take
\* (each quote request and each hard-impact retry among them) lowers a
\* measure that is bounded by the target, and every call returns or throws.
C29_BuyTerminates ==
  /\ [](buy.shards <= MAX_SHARDS)
  /\ [](BuyRunning(buy) =>
          /\ BuyRank(buy) <= 4 * buy.amountSol + 3
          /\ BuyRank(buy) >= -4 * MIN_SHARD_SOL)
  /\ [](BuyRunning(buy) =>
          \A b2 \in BuySucc(buy, 0..MaxOut, ImpactValues) :
            BuyRunning(b2) => BuyRank(b2) < BuyRank(buy))
  /\ [](buy.pc = "quote" =>
          \A r \in QuoteAnswers(buy.lamports, 0..MaxOut, ImpactValues) :
            BuyOnQuote(buy, r).pc = "quote" =>
              /\ BuyOnQuote(buy, r).remainingSol < buy.remainingSol
              /\ buy.proposedSol > MIN_SHARD_SOL)
  /\ [][buy.pc = "delay" =>
          IF BuyLoopCond(buy) THEN buy'.pc = "quote" ELSE ~BuyRunning(buy')]_vars
  /\ (BuyRunning(buy) ~> buy.pc \in {"returned", "thrown"})

\* A call ended on the minimum shard size after a hard-impact retry that
\* followed two executed shards.
C29_Witness ==
  /\ buy.pc = "thrown"
  /\ buy.err = "HardImpact"
  /\ buy.shards = 2
  /\ buy.remainingSol < buy.amountSol - 2 * PerShardSol(buy.amountSol)


\* C30: when a shard of a sell started by the monitor fails at submission
\* or confirmation, the pass records the error for that Position and goes
\* on to the next key (or ends) without another sell of it, and the store
\* and its file are as they were: the Position, if it was there, is still
\* there with the same slPct and tookPartialTP.
C30_FailedMonitorSellKeepsPosition ==
  [][\A s2 \in SellSucc(mon.sell, {1}, {NaN}) :
       /\ mon.pc \in MonSellPcs
       /\ s2.pc = "thrown" /\ s2.err = "SwapFailed"
       /\ mon' = MonOnSell(mon, positions, diskPositions, s2).mon
       => /\ mon'.ev.rule = "error" /\ mon'.ev.mint = mon.mint
          /\ mon'.pc \notin MonSellPcs /\ mon'.sell = IdleSell
          /\ mon.mint \notin Range(mon'.keys)
          /\ (mon'.pc # "idle" => mon'.mint # mon.mint)
          /\ positions' = positions /\ diskPositions' = diskPositions
          /\ Has(positions, mon.mint) =>
               /\ Has(positions', mon.mint)
               /\ positions'.rec[mon.mint].slPct = positions.rec[mon.mint].slPct
               /\ positions'.rec[mon.mint].tookPartialTP
                    = positions.rec[mon.mint].tookPartialTP]_vars

\* A later shard of a monitor sell failed after an earlier one went through,
\* and the Position is in the store, its partial exit not taken and its stop
\* not at breakeven.
C30_Witness ==
  /\ mon.ev.rule = "error"
  /\ mon.ev.sold > 0
  /\ Has(positions, mon.ev.mint)
  /\ ~positions.rec[mon.ev.mint].tookPartialTP
  /\ positions.rec[mon.ev.mint].slPct > 0

\* ====================================================================
\* buyBySol and sellTokensForSol, one call at a time, with every slippage
\* argument a caller can pass (0 stands for none).
\* ====================================================================
SlipTargets == {1, 9, 23, MaxTarget}

SlipBuyCall ==
  /\ buy.pc = "idle" /\ sell.pc = "idle"
  /\ \E t \in SlipTargets, sl \in SlippageArgs : buy' = BuyStart("A", t, sl)
  /\ UNCHANGED <<sell, wallet, sysVars>>

SlipSellCall ==
  /\ buy.pc = "idle"
  /\ SellCall

NextSlip ==
  SlipBuyCall \/ BuyQuote \/ BuyProbe \/ BuySend \/ BuyDelay
    \/ SlipSellCall \/ SellQuote \/ SellSend \/ SellDelay

SpecSlip == InitSell /\ [][NextSlip]_vars

\* What the claim asks of the bound for a caller's argument.
CappedSlippage(sl) ==
  IF (IF sl = 0 THEN SLIPPAGE_BASE ELSE sl) < SLIPPAGE_CAP
  THEN (IF sl = 0 THEN SLIPPAGE_BASE ELSE sl)
  ELSE SLIPPAGE_CAP

\* C31: the slippage bound of every quote request of buyBySol (the shard's
\* and the probe's) and of sellTokensForSol is the caller's value, or the
\* base value when there is none, cut at SLIPPAGE_CAP; it is the same for
\* every request of a call and never above the ceiling.
C31_SlippageCapped ==
  /\ [](buy.pc \in {"quote", "probe"} => buy.curSlip <= SLIPPAGE_CAP)
  /\ [](\A s \in buy.slips : s <= SLIPPAGE_CAP)
  /\ [](sell.pc = "quote" => sell.slip <= SLIPPAGE_CAP)
  /\ [][\A sl \in SlippageArgs :
          /\ \A t \in SlipTargets :
               buy.pc = "idle" /\ buy' = BuyStart("A", t, sl)
               => buy'.curSlip = CappedSlippage(sl) /\ buy'.slips = {CappedSlippage(sl)}
          /\ \A raw \in 0..MaxRaw :
               sell.pc = "idle" /\ sell' = SellStart("A", raw, sl)
               => sell'.slip = CappedSlippage(sl)]_vars
  /\ [][/\ BuyRunning(buy) => buy'.curSlip = buy.curSlip /\ buy'.slips = {buy.curSlip}
        /\ SellRunning(sell) => sell'.slip = sell.slip]_vars

\* A probe is being requested in a call whose caller asked for more than
\* the ceiling, after an executed shard.
C31_Witness ==
  /\ buy.pc = "probe"
  /\ buy.curSlip = SLIPPAGE_CAP
  /\ buy.shards >= 1

\* ====================================================================
\* Two overlapping passes of monitorPositions: setInterval (line 641) calls
\* the async function every POLL_SECONDS whether or not the previous call
\* has returned, and a pass is suspended at every await of lines 599-631.
\* ====================================================================
InitMon2 ==
  /\ buy = IdleBuy
  /\ sell = IdleSell
  /\ wallet \in {[m \in Mints |-> IF m = "A" THEN b ELSE 0] : b \in {1, 2, MaxRaw}}
  /\ positions \in {[keys |-> <<"A">>, rec |-> [m \in {"A"} |-> p]] : p \in LoadedPositions}
  /\ diskPositions = positions
  /\ mon = IdleMon
  /\ mon2 = IdleMon
  /\ now = 1
  /\ AutoIdle
  /\ CmdIdle

\* The swap of a slice goes through only if the wallet holds the slice.
Funded(m, s2) == SellDelta(m.sell, s2) <= wallet[m.mint]

\* A suspension of the first pass's sellTokensForSol call ends
MonSellFunded ==
  /\ mon.pc \in MonSellPcs
  /\ \E s2 \in SellSucc(mon.sell, {1}, {NaN}) :
       /\ Funded(mon, s2)
       /\ MonApply(MonOnSell(mon, positions, diskPositions, s2))
       /\ wallet' = [wallet EXCEPT ![mon.mint] = @ - SellDelta(mon.sell, s2)]
  /\ done' = NoDone
  /\ UNCHANGED <<buy, sell, mon2, now, autoVars, lastChatId, cb, sel>>

\* The timer fires while the first pass is suspended
Mon2Tick ==
  /\ mon.pc # "idle"
  /\ mon2.pc = "idle"
  /\ mon2' = MonStart(mon2, positions, now)
  /\ done' = NoDone
  /\ UNCHANGED <<buy, sell, wallet, positions, diskPositions, mon, now, autoVars,
                 lastChatId, cb, sel>>

Mon2Apply(out) ==
  /\ mon2' = out.mon
  /\ positions' = out.positions
  /\ diskPositions' = out.disk

Mon2Balance ==
  /\ mon2.pc = "balance"
  /\ \E ok \in BOOLEAN :
       Mon2Apply(MonOnBalance(mon2, positions, diskPositions, ok, wallet[mon2.mint]))
  /\ done' = NoDone
  /\ UNCHANGED <<buy, sell, wallet, mon, now, autoVars, lastChatId, cb, sel>>

Mon2Estimate ==
  /\ mon2.pc = "estimate"
  /\ \E ok \in BOOLEAN, est \in 0..MaxEst :
       Mon2Apply(MonOnEstimate(mon2, positions, diskPositions, ok, est))
  /\ done' = NoDone
  /\ UNCHANGED <<buy, sell, wallet, mon, now, autoVars, lastChatId, cb, sel>>

Mon2Sell ==
  /\ mon2.pc \in MonSellPcs
  /\ \E s2 \in SellSucc(mon2.sell, {1}, {NaN}) :
       /\ Funded(mon2, s2)
       /\ Mon2Apply(MonOnSell(mon2, positions, diskPositions, s2))
       /\ wallet' = [wallet EXCEPT ![mon2.mint] = @ - SellDelta(mon2.sell, s2)]
  /\ done' = NoDone
  /\ UNCHANGED <<buy, sell, mon, now, autoVars, lastChatId, cb, sel>>

NextMon2 ==
  MonTick \/ MonBalance \/ MonEstimate \/ MonSellFunded
    \/ Mon2Tick \/ Mon2Balance \/ Mon2Estimate \/ Mon2Sell

SpecMon2 == InitMon2 /\ [][NextMon2]_vars

C33_CancelStopsPass ==
  [][/\ mon.pc \notin MonSellPcs /\ mon'.pc \in MonSellPcs
          => mon.hasP /\ Has(positions, mon'.mint)
     /\ mon.pc \in {"balance", "estimate"} /\ ~Has(positions, mon.mint) /\ mon' # mon
          => /\ mon'.pc \notin MonSellPcs
             /\ mon'.ev.rule \notin {"SL", "partialTP", "finalTP"}
             /\ wallet' = wallet
             /\ ~Has(positions', mon.mint)
     /\ mon' # mon
          => \A m \in Mints : ~Has(positions, m) => ~Has(positions', m)]_vars

\* The timer's pass read a balance for a Position it had found in the
\* store, /cancel removed the Position, and the evaluation ended in an error
\* with the tokens still in the wallet.
C33_Witness ==
  /\ mon.ev.rule = "error"
  /\ mon.ev.tracked
  /\ mon.ev.bal > 0
  /\ mon.ev.sold = 0
  /\ ~Has(positions, mon.ev.mint)
  /\ wallet[mon.ev.mint] = mon.ev.bal

\* ====================================================================
\* The life of one Position: /autobuy creates or replaces it, the monitor
\* evaluates it and sells, /cancel removes it, the process restarts from
\* positions.json.
\* ====================================================================
\* lines 419-427: /autobuy A <sol>, up to verifyMintExists
StoreAutobuy ==
  /\ ab.pc = "idle"
  /\ ab' = [IdleAb EXCEPT !.pc = "verify", !.mint = "A"]
  /\ lastChatId' = OnMessage(lastChatId)
  /\ done' = NoDone
  /\ UNCHANGED <<buy, sell, mon2, wallet, positions, diskPositions, mon, now,
                 AUTOPILOT, diskAutopilot, auto, entries, cb, sel>>

NextStore ==
  \/ StoreAutobuy \/ AbVerify \/ AbBuyLoaded
  \/ MonTick \/ MonBalance \/ MonEstimate \/ MonSell
  \/ CmdCancel \/ Restart

SpecStore == InitBuy /\ [][NextStore]_vars

\* The stop of a Position is at breakeven exactly when its partial exit is
\* taken, and is the initial stop otherwise.
StopMatchesPartial(p) ==
  /\ p.slPct = 0 <=> p.tookPartialTP
  /\ ~p.tookPartialTP => p.slPct = SCALP_SL_PCT

\* C34: every Position of the store, and of the file, has slPct = 0 exactly
\* when tookPartialTP is true and the initial stop otherwise, and the tpPct
\* of a key that stays in the store does not change.
C34_StopFollowsPartialExit ==
  /\ [](\A m \in Range(positions.keys) : StopMatchesPartial(positions.rec[m]))
  /\ [](\A m \in Range(diskPositions.keys) : StopMatchesPartial(diskPositions.rec[m]))
  /\ [][\A m \in Mints :
          Has(positions, m) /\ Has(positions', m)
          => positions'.rec[m].tpPct = positions.rec[m].tpPct]_vars

\* The Position of A has had its partial take-profit and an /autobuy for A
\* is buying.
C34_Witness ==
  /\ Has(positions, "A")
  /\ positions.rec["A"].tookPartialTP
  /\ positions.rec["A"].slPct = 0
  /\ ab.pc = "buy"

\* C35: when the buy of an /autobuy returns for a mint that has a Position,
\* the record of that key becomes the Position of this buy alone (its spent
\* and received amounts, partial exit not taken, the initial stop), in the
\* store and in the file, the key keeps its place, and the step takes no
\* token out of the wallet, which holds more than the record says.
C35_AutobuyReplacesPosition ==
  [][done'.task = "autobuy" /\ done'.res = "returned" /\ Has(positions, ab.mint)
       => /\ positions'.keys = positions.keys
          /\ \E b2 \in SysBuySucc(ab.buy) :
               /\ b2.pc = "returned"
               /\ positions'.rec[ab.mint]
                    = NewPosition(b2.spentLamports, b2.receivedRaw, now, "SCALP-THIN")
          /\ ~positions'.rec[ab.mint].tookPartialTP
          /\ positions'.rec[ab.mint].slPct = SCALP_SL_PCT
          /\ \A m \in Range(positions.keys) \ {ab.mint} :
               positions'.rec[m] = positions.rec[m]
          /\ diskPositions' = positions'
          /\ wallet' = wallet
          /\ wallet'[ab.mint] > positions'.rec[ab.mint].entryTokenRecvRaw]_vars

\* An /autobuy has just replaced a Position: the record is the new buy's
\* and the wallet holds the earlier tokens as well.
C35_Witness ==
  /\ done.task = "autobuy"
  /\ done.res = "returned"
  /\ Has(positions, done.mint)
  /\ positions.rec[done.mint].entrySolSpent < EntryLoaded
  /\ wallet[done.mint] > positions.rec[done.mint].entryTokenRecvRaw
  /\ positions.keys = <<"B", "A">>
  /\ done.mint = "B"

\* ====================================================================
\* The monitor with a provider and a chain that always answer: every
\* balance query, quote and swap succeeds, and the timer keeps firing.
\* ====================================================================
InitMonLive ==
  /\ buy = IdleBuy
  /\ sell = IdleSell
  /\ wallet \in [Mints -> 1..MaxRaw]
  /\ positions \in LoadedStores
  /\ diskPositions = positions
  /\ mon = IdleMon
  /\ mon2 = IdleMon
  /\ now = 1
  /\ AutoIdle
  /\ CmdIdle

\* getTokenRawBalance answers
MonBalanceOk ==
  /\ mon.pc = "balance"
  /\ MonApply(MonOnBalance(mon, positions, diskPositions, TRUE, wallet[mon.mint]))
  /\ done' = NoDone
  /\ UNCHANGED <<buy, sell, mon2, wallet, now, autoVars, lastChatId, cb, sel>>

\* A suspension of the monitor's sell ends, its quote or swap succeeding
MonSellOk ==
  /\ mon.pc \in MonSellPcs
  /\ \E s2 \in SellSucc(mon.sell, {1}, {NaN}) :
       /\ s2.pc # "thrown"
       /\ MonApply(MonOnSell(mon, positions, diskPositions, s2))
       /\ wallet' = [wallet EXCEPT ![mon.mint] = @ - SellDelta(mon.sell, s2)]
  /\ done' = NoDone
  /\ UNCHANGED <<buy, sell, mon2, now, autoVars, lastChatId, cb, sel>>

\* Estimates that put the Position p at or below its stop:
\* (est - entry) / entry * 100 <= -slPct
LossEstimates(p) ==
  {e \in 0..MaxEst : (e - p.entrySolSpent) * 100 <= (0 - p.slPct) * p.entrySolSpent}

\* estimateSolForToken answers with an estimate at or below the stop
MonEstimateLoss ==
  /\ mon.pc = "estimate"
  /\ Has(positions, mon.mint)
  /\ \E est \in LossEstimates(positions.rec[mon.mint]) :
       MonApply(MonOnEstimate(mon, positions, diskPositions, TRUE, est))
  /\ done' = NoDone
  /\ UNCHANGED <<buy, sell, mon2, wallet, now, autoVars, lastChatId, cb, sel>>

NextStopLive == MonTick \/ MonBalanceOk \/ MonEstimateLoss \/ MonSellOk

SpecStopLive == InitMonLive /\ [][NextStopLive]_vars /\ WF_vars(NextStopLive)

\* C36: with every estimate at or below the stop, a nonzero balance and
\* every request succeeding, a Position in the store is eventually removed.
C36_StopLossEventuallyRemoves ==
  \A m \in Mints : Has(positions, m) ~> ~Has(positions, m)

\* The stop-loss of a Position has sold the whole balance and removed the
\* Position.
C36_Witness ==
  /\ mon.ev.rule = "SL"
  /\ mon.ev.tracked
  /\ mon.ev.bal = MaxRaw
  /\ mon.ev.sold = MaxRaw
  /\ ~Has(positions, mon.ev.mint)
  /\ wallet[mon.ev.mint] = 0

\* Estimates that put the Position p at or above its take-profit:
\* (est - entry) / entry * 100 >= tpPct
GainEstimates(p) ==
  {e \in 0..MaxEst : (e - p.entrySolSpent) * 100 >= p.tpPct * p.entrySolSpent}

\* estimateSolForToken answers with an estimate at or above the take-profit
MonEstimateGain ==
  /\ mon.pc = "estimate"
  /\ Has(positions, mon.mint)
  /\ \E est \in GainEstimates(positions.rec[mon.mint]) :
       MonApply(MonOnEstimate(mon, positions, diskPositions, TRUE, est))
  /\ done' = NoDone
  /\ UNCHANGED <<buy, sell, mon2, wallet, now, autoVars, lastChatId, cb, sel>>

NextProfitLive == MonTick \/ MonBalanceOk \/ MonEstimateGain \/ MonSellOk

SpecProfitLive == InitMonLive /\ [][NextProfitLive]_vars /\ WF_vars(NextProfitLive)

\* C37: with every estimate at or above the take-profit, a balance of at
\* least 1 and every request succeeding, a Position that has not taken its
\* partial exit eventually has it taken (tookPartialTP = true), and every
\* Position is eventually removed from the store.
C37_TakeProfitEventuallyRemoves ==
  \A m \in Mints :
    /\ (Has(positions, m) /\ ~positions.rec[m].tookPartialTP)
         ~> (Has(positions, m) /\ positions.rec[m].tookPartialTP)
    /\ Has(positions, m) ~> ~Has(positions, m)

\* ====================================================================
\* /autofilters <name> <value> (lines 490-547), with /autopilot on|off in
\* between.
\* ====================================================================
\* The value token of the message: absent, not a number, Infinity, or a
\* decimal number v (v + 1/2 when half is set).
Token(k, v, half) == [k |-> k, v |-> v, half |-> half]

FilterTokens ==
  {Token("missing", 0, FALSE), Token("text", 0, FALSE), Token("inf", 0, FALSE)}
    \cup {Token("num", v, h) : v \in {-1, 0, 3}, h \in BOOLEAN}

FilterNames ==
  {"budget", "maxopen", "minliq", "minvol5m", "minbuys5m", "minchg5m", "cooldown", "other"}

\* The fields whose value is rounded down to a whole number.
FloorNames == {"maxopen", "minbuys5m"}

\* Mutant: only a finite number is asked for.
NumOrErrFinite(tok) == [ok |-> tok.k = "num", v |-> tok.v, half |-> tok.half]

\* lines 508-512: numOrErr; Number(undefined) and Number of a word are NaN,
\* which is not finite.  Of the numbers, -1 and -1/2 are below zero.
numOrErr(tok) ==
  [ok |-> tok.k = "num" /\ tok.v >= 0, v |-> tok.v, half |-> tok.half]

\* Math.floor of a number v or v + 1/2 that is not negative (lines 516, 519,
\* 523); Math.max(0, ...) of it is the same number.
FloorOf(n) == n.v

\* The AUTOPILOT member a subcommand writes.
FieldOf(name) ==
  CASE name = "budget" -> "budgetSol"
    [] name = "maxopen" -> "maxOpen"
    [] name = "minliq" -> "minLiqUsd"
    [] name = "minvol5m" -> "minVol5m"
    [] name = "minbuys5m" -> "minBuys5m"
    [] name = "minchg5m" -> "minChange5m"
    [] name = "cooldown" -> "cooldownMs"
    [] OTHER -> "none"

\* lines 514-546: the edit; res is the kind of reply
AutofiltersEdit(cfg, name, tok) ==
  IF FieldOf(name) = "none" THEN [cfg |-> cfg, res |-> "unknown", saved |-> FALSE]
  ELSE LET n == numOrErr(tok) IN
    IF ~n.ok THEN [cfg |-> cfg, res |-> "invalid", saved |-> FALSE]
    ELSE [cfg |-> [cfg EXCEPT ![FieldOf(name)] =
                               IF name \in FloorNames \cup {"cooldown"} THEN FloorOf(n) ELSE n.v],
          res |-> "ok", saved |-> TRUE]

\* Values with a half are sent to the fields that are rounded down (the
\* other fields hold whole numbers of the model's unit).
AutofiltersCommand(names, toks) ==
  /\ \E name \in names, tok \in toks :
       /\ tok.half => name \in FloorNames
       /\ LET e == AutofiltersEdit(AUTOPILOT, name, tok) IN
            /\ AUTOPILOT' = e.cfg
            /\ diskAutopilot' = IF e.saved THEN e.cfg ELSE diskAutopilot
            /\ done' = [task |-> "autofilters", mint |-> "A", res |-> e.res,
                        announced |-> TRUE]
  /\ lastChatId' = OnMessage(lastChatId)
  /\ UNCHANGED <<buy, sell, mon2, wallet, positions, diskPositions, mon, now, auto, ab,
                 entries, cb, sel>>

CmdAutofilters == AutofiltersCommand(FilterNames, FilterTokens)

NextFilters == CmdAutofilters \/ CmdAutopilot

SpecFilters == InitBuy /\ [][NextFilters]_vars

\* C38: an /autofilters edit whose value is missing, not a number, not
\* finite or negative is answered with the error reply and leaves the
\* configuration and its file as they were; an edit with a valid value
\* changes the named field, in memory and in the file, and no other.
C38_InvalidEditRejected ==
  [][\A name \in FilterNames \ {"other"}, tok \in FilterTokens :
       /\ tok.half => name \in FloorNames
       /\ done'.task = "autofilters"
       /\ AUTOPILOT' = AutofiltersEdit(AUTOPILOT, name, tok).cfg
       /\ done'.res = AutofiltersEdit(AUTOPILOT, name, tok).res
       => IF tok.k # "num" \/ tok.v < 0
          THEN /\ done'.res = "invalid" /\ done'.announced
               /\ AUTOPILOT' = AUTOPILOT /\ diskAutopilot' = diskAutopilot
          ELSE /\ done'.res = "ok"
               /\ AUTOPILOT'[FieldOf(name)] = tok.v
               /\ \A f \in DOMAIN AUTOPILOT \ {FieldOf(name)} : AUTOPILOT'[f] = AUTOPILOT[f]
               /\ diskAutopilot' = AUTOPILOT']_vars

\* A value has just been refused while the configuration holds edited
\* values and the autopilot is on.
C38_Witness ==
  /\ done.task = "autofilters"
  /\ done.res = "invalid"
  /\ AUTOPILOT.maxOpen = 3
  /\ AUTOPILOT.budgetSol = 0
  /\ AUTOPILOT.enabled
  /\ diskAutopilot = AUTOPILOT

\* ====================================================================
\* Who may command the bot: the allow-lists and authGuard (lines 27-28,
\* 52-66), in front of the command handlers (lines 335-563).
\* ====================================================================
\* The two environment values after split(',') and trim (lines 52-53): a
\* user list written "u1," and a chat list written "c1,". The empty entry
\* is what a trailing comma, or the default '', leaves behind.
TELEGRAM_ALLOWED_USER_ID == <<"u1", "">>

TELEGRAM_ALLOWED_CHAT_ID == <<"c1", "">>

\* Mutant: the empty entries stay in the list.
FilterNothing(list) == list

\* .filter(Boolean) of lines 52-53: the empty string is falsy
FilterBoolean(list) == SelectSeq(list, LAMBDA e : e # "")

USER_ALLOWLIST == Range(FilterBoolean(TELEGRAM_ALLOWED_USER_ID))

CHAT_ALLOWLIST == Range(FilterBoolean(TELEGRAM_ALLOWED_CHAT_ID))

\* The senders: from and chat are String(ctx.from?.id || '') and
\* String(ctx.chat?.id || '') (lines 55-56), "" when the update has none.
Senders == [from : {"u1", "u2", ""}, chat : {"c1", "c2", ""}]

\* lines 54-60
allowed(ctx) ==
  LET userOk == ctx.from \in USER_ALLOWLIST
      chatOk == ctx.chat \in CHAT_ALLOWLIST
  IN userOk \/ chatOk

\* line 63: ctx.reply('Not authorized.'), and nothing else
Refused == [task |-> "auth", mint |-> "A", res |-> "Not authorized.", announced |-> TRUE]

NotAuthorized ==
  /\ done' = Refused
  /\ UNCHANGED <<buy, sell, wallet, positions, diskPositions, mon, mon2, now, autoVars,
                 lastChatId, cb, sel>>

\* lines 61-66: the handler runs only for an allowed sender. The message
\* middleware of lines 381-384 records the chat under the same condition,
\* which is the handlers' lastChatId' = OnMessage(lastChatId).
authGuard(ctx, handler) == IF ~allowed(ctx) THEN NotAuthorized ELSE handler

\* lines 335-358: /whoami and /authstatus are registered without authGuard
\* and before the message middleware; they reply and touch nothing.
Whoami ==
  /\ done' = [task |-> "whoami", mint |-> "A", res |-> "ids", announced |-> TRUE]
  /\ UNCHANGED <<buy, sell, wallet, positions, diskPositions, mon, mon2, now, autoVars,
                 lastChatId, cb, sel>>

\* The percentages of /sell.
SellPcts == {50, 100}

\* lines 406-410: /sell <mint> [percent], up to getTokenRawBalance; totalRaw
\* holds the percentage until the balance is known.
CmdSell ==
  /\ sell.pc = "idle"
  /\ \E m \in Mints, pct \in SellPcts :
       sell' = [IdleSell EXCEPT !.pc = "balance", !.mint = m, !.totalRaw = pct]
  /\ lastChatId' = OnMessage(lastChatId)
  /\ done' = NoDone
  /\ UNCHANGED <<buy, wallet, positions, diskPositions, mon, mon2, now, autoVars, cb, sel>>

\* lines 411-414: the balance answered; 'No balance' is thrown for none,
\* or sellTokensForSol starts on the percentage of it
CsBalance ==
  /\ sell.pc = "balance"
  /\ LET raw == wallet[sell.mint]
         toSell == (raw * sell.totalRaw) \div 100
     IN sell' = IF raw <= 0 THEN IdleSell ELSE SellStart(sell.mint, toSell, SLIPPAGE_BASE)
  /\ done' = NoDone
  /\ UNCHANGED <<buy, wallet, positions, diskPositions, mon, mon2, now, autoVars,
                 lastChatId, cb, sel>>

\* One command message from the sender ctx.
OnCommand(ctx) ==
  \/ authGuard(ctx, CmdBuy)
  \/ authGuard(ctx, CmdSell)
  \/ authGuard(ctx, CmdAutobuy)
  \/ authGuard(ctx, CmdCancel)
  \/ authGuard(ctx, CmdAutopilot)
  \/ authGuard(ctx, CmdAutofilters)
  \/ Whoami

AuthBuy == \E ctx \in Senders : authGuard(ctx, CmdBuy)

AuthSell == \E ctx \in Senders : authGuard(ctx, CmdSell)

AuthAutobuy == \E ctx \in Senders : authGuard(ctx, CmdAutobuy)

AuthCancel == \E ctx \in Senders : authGuard(ctx, CmdCancel)

AuthAutopilot == \E ctx \in Senders : authGuard(ctx, CmdAutopilot)

\* /autofilters with one accepted edit and two rejected ones.
AuthAutofilters ==
  \E ctx \in Senders :
    authGuard(ctx, AutofiltersCommand({"maxopen", "other"},
                                      {Token("num", 3, FALSE), Token("text", 0, FALSE)}))

\* The process starts with a Position in mint A loaded from positions.json.
\* Each command is followed up to the first quote request of its trade.
InitAuth ==
  /\ InitCmd
  /\ wallet = [m \in Mints |-> MaxRaw - 1]
  /\ positions = Put(EmptyStore, "A", NewPosition(EntryLoaded, MaxRaw, 0, "SCALP-THIN"))

NextAuth ==
  \/ AuthBuy \/ AuthSell \/ AuthAutobuy \/ AuthCancel \/ AuthAutopilot \/ AuthAutofilters
  \/ Whoami
  \/ CbVerify \/ AbVerify \/ CsBalance

SpecAuth == InitAuth /\ [][NextAuth]_vars

\* The sender is in neither list, as the lists are written.
Stranger(ctx) ==
  /\ \A i \in DOMAIN TELEGRAM_ALLOWED_USER_ID :
       ctx.from = "" \/ TELEGRAM_ALLOWED_USER_ID[i] # ctx.from
  /\ \A i \in DOMAIN TELEGRAM_ALLOWED_CHAT_ID :
       ctx.chat = "" \/ TELEGRAM_ALLOWED_CHAT_ID[i] # ctx.chat

\* C39: a command from a sender who is in neither the user allow-list nor
\* the chat allow-list leaves the Position Store and AutopilotConfig, in
\* memory and on disk, as they were, and starts no quote, buy or sell: no
\* /buy, /autobuy or engine call leaves its state, and the wallet and the
\* recorded chat are untouched.
C39_StrangerChangesNothing ==
  [][\A ctx \in Senders :
       (Stranger(ctx) /\ OnCommand(ctx))
         => UNCHANGED <<positions, diskPositions, AUTOPILOT, diskAutopilot,
                        buy, sell, cb, ab, wallet, lastChatId>>]_vars

\* A stranger has just been refused while a Position is held and a /buy
\* of an allowed sender is under way.
C39_Witness ==
  /\ done = Refused
  /\ \E m \in Mints : Has(positions, m)
  /\ cb.pc = "buy"
  /\ sell.pc = "quote"
  /\ AUTOPILOT.enabled

====================================================================
